---- MODULE Spec2Model ----
(***************************************************************************)
(* A model of the SCCL language front end (sccl/language/__init__.py), of  *)
(* the emit post-processing (sccl/language/ir.py) and of the rank DAG      *)
(* (sccl/language/rank_dag.py).                                            *)
(*                                                                         *)
(* Ops are kept in an arena: an op is the index of its record in a         *)
(* sequence, so that two ops are equal only when they are the same object  *)
(* (Op.__eq__ is identity).  The front end builds Refs and Ops             *)
(* positionally; the model reads every constructor call by the field names *)
(* the front end itself uses afterwards (op.inst, op.src, op.dst, op.step, *)
(* ref.buffer, ref.index, ref.size, ref.rank, ref.missing).                *)
(***************************************************************************)
EXTENDS Integers, Sequences, FiniteSets, TLC

VARIABLES
    tbs,         \* Process.tbs, per rank: tbid -> Threadblock
    tb_mapping,  \* Process.tb_mapping, per rank: (inst, peer, ch) -> tbid
    tb_count,    \* Process.tb_count, per rank
    slot_ops,    \* Process.slot_ops, per rank: (buffer, index) -> list of ops
    buffers,     \* Process.buffers, per rank: buffer -> index -> chunk
    ops,         \* every Op object constructed so far
    run_opt,     \* SCCLProgram.run_opt
    failure,     \* the exception that ended the script, "none" while it runs
    ncalls,      \* number of front-end calls issued
    last,        \* the front-end call issued last, with its arguments
    held,        \* the Ref the script holds in a local variable
    ca, cb, cc,  \* three chunks a script reduces and compares
    cres,        \* the values that script has computed
    cpc,         \* the statement that script is at
    threadblocks,\* Gpu.threadblocks of the program handed to ir_to_xml
    gpu_ops,     \* the Op objects of that program
    xml,         \* what ir_to_xml returned
    dag_ops,     \* the Op objects of the RankDAG
    operations,  \* RankDAG.operations: slot -> first op, in insertion order
    dag_pc,      \* how far the lowering has driven the RankDAG
    dag_n,       \* number of transfers lowered into the RankDAG
    dag_tbs,     \* RankDAG.tbs, per rank: tbid -> Threadblock
    num_channels,\* RankDAG.num_channels, per rank
    dag_buffers, \* RankDAG.buffers, per rank: the buffers in insertion order
    instanced_tbs,   \* RankDAG.instanced_tbs, per rank: tbid -> Threadblock
    instanced_ops,   \* the Op objects replicate constructed
    rep_call,    \* the arguments lower_buffers and replicate were called with
    programs,    \* the SCCLProgram objects constructed so far
    current_program  \* _current_program

facadeVars == <<tbs, tb_mapping, tb_count, slot_ops, buffers, ops, run_opt,
                failure, ncalls, last>>

chunkVars == <<ca, cb, cc, cres, cpc>>

emitVars == <<threadblocks, gpu_ops, xml>>

dagVars == <<dag_ops, operations, dag_pc, dag_n>>

repVars == <<dag_tbs, num_channels, dag_buffers, instanced_tbs, instanced_ops,
             rep_call>>

regionVars == <<programs, current_program>>

\* what the front-end calls leave alone
pureVars == <<chunkVars, emitVars, dagVars, repVars, regionVars>>

vars == <<facadeVars, held, pureVars>>

-----------------------------------------------------------------------------
(* Bounds and the program the model is built around.                       *)

\* number of front-end calls a script issues
MaxCalls == 2
\* steps a script may pass are 0..MaxStep
MaxStep == 1
\* chunks per rank of the allreduce program (the instances argument)
Instances == 3

\* topo.num_nodes() = 3, a line 0 - 1 - 2: there is no link between 0 and 2
Ranks == {0, 1, 2}
Links == {<<0, 1>>, <<1, 0>>, <<1, 2>>, <<2, 1>>}

EmptyFn == [x \in {} |-> 0]

BufInput == "i"
BufOutput == "o"
BufNone == "none"

IsScratch(buffer) == buffer # BufInput /\ buffer # BufOutput

-----------------------------------------------------------------------------
(* Chunk and ReduceChunk.                                                   *)

None == [kind |-> "none"]
Raised == [kind |-> "raised"]

Chunk(origin_rank, origin_index, dst_rank, dst_index) ==
    [kind |-> "chunk", origin_rank |-> origin_rank, origin_index |-> origin_index,
     dst_rank |-> dst_rank, dst_index |-> dst_index]

ReduceChunk(chunks) == [kind |-> "reduce", chunks |-> chunks]

\* Chunk.reduce: a Chunk with a Chunk gives the pair, a Chunk with a
\* ReduceChunk defers to ReduceChunk.reduce, anything else falls through the
\* "assert True" and returns None.
RECURSIVE ChunkReduce(_, _)
ChunkReduce(self, chunk) ==
    CASE self.kind = "chunk" /\ chunk.kind = "reduce" -> ChunkReduce(chunk, self)
      [] self.kind = "chunk" /\ chunk.kind = "chunk" -> ReduceChunk(<<self, chunk>>)
      [] self.kind = "chunk" -> None
      [] self.kind = "reduce" /\ chunk.kind = "reduce" ->
             ReduceChunk(self.chunks \o chunk.chunks)
      [] self.kind = "reduce" /\ chunk.kind = "chunk" ->
             ReduceChunk(Append(self.chunks, chunk))
      \* ReduceChunk.reduce(None): chunks is unbound; None.reduce: no attribute
      [] OTHER -> Raised

-----------------------------------------------------------------------------
(* Refs and Ops.                                                            *)

Ref(buffer, index, size, rank, missing) ==
    [rank |-> rank, buffer |-> buffer, index |-> index, size |-> size,
     missing |-> missing]

RefEnd(ref) == ref.index + ref.size

Op(inst, src, dst, step) ==
    [inst |-> inst, src |-> src, dst |-> dst, step |-> step, tb |-> -1,
     depends |-> <<>>]

\* the whole mutable state a front-end call works on
Cur == [tbs |-> tbs, tb_mapping |-> tb_mapping, tb_count |-> tb_count,
        slot_ops |-> slot_ops, buffers |-> buffers, ops |-> ops,
        run_opt |-> run_opt, failure |-> failure]

Fail(S, what) == [S EXCEPT !.failure = what]

NewOp(S, op) == [S EXCEPT !.ops = Append(@, op)]

-----------------------------------------------------------------------------
(* Buffers.                                                                 *)

ReadSlot(S, rank, buffer, index) ==
    IF IsScratch(buffer) THEN S.buffers[rank][buffer].chunks[index]
    ELSE S.buffers[rank][buffer][index]

WriteSlot(S, rank, buffer, index, value) ==
    IF IsScratch(buffer)
    THEN [S EXCEPT !.buffers[rank][buffer].chunks = (index :> value) @@ @]
    ELSE [S EXCEPT !.buffers[rank][buffer][index] = value]

BufferSlice == [buf |-> "s", offset |-> -1, index |-> 0, chunks |-> EmptyFn]

-----------------------------------------------------------------------------
(* Process: threadblock ids, dependences, slot_ops.                         *)

GetTbid(S, rank, inst, other_rank, ch) ==
    LET key == <<inst, other_rank, ch>> IN
    IF key \in DOMAIN S.tb_mapping[rank]
    THEN [S |-> S, tbid |-> S.tb_mapping[rank][key]]
    ELSE [S |-> [S EXCEPT !.tb_mapping[rank] = (key :> S.tb_count[rank]) @@ @,
                          !.tb_count[rank] = @ + 1],
          tbid |-> S.tb_count[rank]]

PickTbid(S, rank, tbid, inst, other_rank, ch) ==
    IF tbid = -1 THEN GetTbid(S, rank, inst, other_rank, ch)
    ELSE [S |-> S, tbid |-> tbid]

\* depends[tb] = last_op unless the tb is there with a step at least as high
MergeDependence(S, depends, last_op) ==
    LET hit == {k \in 1..Len(depends) : S.ops[depends[k]].tb = S.ops[last_op].tb} IN
    IF hit = {} THEN Append(depends, last_op)
    ELSE LET k == CHOOSE k \in hit : TRUE IN
         IF S.ops[last_op].step > S.ops[depends[k]].step
         THEN [depends EXCEPT ![k] = last_op]
         ELSE depends

RECURSIVE DependencesFrom(_, _, _, _, _, _, _)
DependencesFrom(S, rank, buffer, start_index, size, i, depends) ==
    IF i >= size THEN depends
    ELSE LET key == <<buffer, start_index + i>>
             next == IF key \in DOMAIN S.slot_ops[rank]
                     THEN MergeDependence(S, depends,
                              S.slot_ops[rank][key][Len(S.slot_ops[rank][key])])
                     ELSE depends
         IN DependencesFrom(S, rank, buffer, start_index, size, i + 1, next)

GetDependences(S, rank, buffer, start_index, size) ==
    DependencesFrom(S, rank, buffer, start_index, size, 0, <<>>)

UpdateSlotOps(S, rank, buffer, index, op) ==
    LET key == <<buffer, index>> IN
    IF key \in DOMAIN S.slot_ops[rank]
    THEN [S EXCEPT !.slot_ops[rank][key] = Append(@, op)]
    ELSE [S EXCEPT !.slot_ops[rank] = (key :> <<op>>) @@ @]

\* op.tb = tbid; op.depends = self._get_dependences(op.src...)
FillDependence(S, rank, op, tbid) ==
    LET S1 == [S EXCEPT !.ops[op].tb = tbid] IN
    [S1 EXCEPT !.ops[op].depends =
        GetDependences(S1, rank, S1.ops[op].src.buffer, S1.ops[op].src.index,
                       S1.ops[op].src.size)]

Threadblock(channel, send, recv, tbops) ==
    [channel |-> channel, send |-> send, recv |-> recv, ops |-> tbops]

-----------------------------------------------------------------------------
(* Process._add_send, _add_recv, _add_copy, _add_receive_reduce_copy.       *)

\* the assert of _add_send left out
SendPeerOkMut(tb, sendto) == TRUE

\* assert (tb.send == -1 or tb.send == sendto)
SendPeerOk(tb, sendto) == tb.send = -1 \/ tb.send = sendto

\* assert (tb.recv == -1 or tb.recv == receivefrom)
RecvPeerOk(tb, receivefrom) == tb.recv = -1 \/ tb.recv = receivefrom

\* assert step not in tb.ops
StepFree(tb, step) == step \notin DOMAIN tb.ops

\* for i in range(op.src.size): self._update_slot_ops(op.src.buffer, op.src.index, op, tbid)
RECURSIVE SendSlotOps(_, _, _, _)
SendSlotOps(S, rank, op, i) ==
    IF i >= S.ops[op].src.size THEN S
    ELSE SendSlotOps(UpdateSlotOps(S, rank, S.ops[op].src.buffer,
                                   S.ops[op].src.index, op),
                     rank, op, i + 1)

AddSend(S, rank, tbid0, step, ch, op) ==
    LET sendto == S.ops[op].dst.rank
        g == PickTbid(S, rank, tbid0, "s", sendto, ch)
        tbid == g.tbid
        Finish(T) == SendSlotOps(FillDependence(T, rank, op, tbid), rank, op, 0)
    IN  IF tbid \notin DOMAIN g.S.tbs[rank]
        THEN Finish([g.S EXCEPT !.tbs[rank] =
                      (tbid :> Threadblock(ch, sendto, -1, (step :> op))) @@ @])
        ELSE IF ~SendPeerOk(g.S.tbs[rank][tbid], sendto)
        THEN Fail(g.S, "tb_send_peer")
        ELSE LET S2 == [g.S EXCEPT !.tbs[rank][tbid].send = sendto] IN
             IF ~StepFree(S2.tbs[rank][tbid], step)
             THEN Fail(S2, "tb_step")
             ELSE Finish([S2 EXCEPT !.tbs[rank][tbid].ops = (step :> op) @@ @])

\* the "Update tbs" part shared by _add_recv and _add_receive_reduce_copy
RecvTbs(S, rank, tbid, step, ch, receivefrom, op) ==
    IF tbid \notin DOMAIN S.tbs[rank]
    THEN [S EXCEPT !.tbs[rank] =
             (tbid :> Threadblock(ch, -1, receivefrom, (step :> op))) @@ @]
    ELSE IF ~RecvPeerOk(S.tbs[rank][tbid], receivefrom)
    THEN Fail(S, "tb_recv_peer")
    ELSE LET S2 == [S EXCEPT !.tbs[rank][tbid].recv = receivefrom] IN
         IF ~StepFree(S2.tbs[rank][tbid], step)
         THEN Fail(S2, "tb_step")
         ELSE [S2 EXCEPT !.tbs[rank][tbid].ops = (step :> op) @@ @]

\* buffers[dst.buffer][dst.index+i] = ranks[src.rank].buffers[src.buffer][src.index+i];
\* a buffer name the rank does not have is a KeyError
RECURSIVE RecvLoop(_, _, _, _)
RecvLoop(S, rank, op, i) ==
    LET src == S.ops[op].src
        dst == S.ops[op].dst
    IN  IF i >= src.size THEN S
        ELSE IF dst.buffer \notin DOMAIN S.buffers[rank] THEN Fail(S, "no_buffer")
        ELSE RecvLoop(
                 UpdateSlotOps(
                     WriteSlot(S, rank, dst.buffer, dst.index + i,
                               ReadSlot(S, src.rank, src.buffer, src.index + i)),
                     rank, dst.buffer, dst.index + i, op),
                 rank, op, i + 1)

AddRecv(S, rank, tbid0, step, ch, op) ==
    LET receivefrom == S.ops[op].src.rank
        g == PickTbid(S, rank, tbid0, "r", receivefrom, ch)
        S1 == FillDependence(g.S, rank, op, g.tbid)
        S2 == RecvLoop(S1, rank, op, 0)
    IN  IF S2.failure # "none" THEN S2
        ELSE RecvTbs(S2, rank, g.tbid, step, ch, receivefrom, op)

\* self.buffers[dst.buffer][dst.index+i] = self.buffers[src.buffer][src.index+i],
\* one index after the other, in place
RECURSIVE CopyLoop(_, _, _, _)
CopyLoop(S, rank, op, i) ==
    LET src == S.ops[op].src
        dst == S.ops[op].dst
    IN  IF i >= src.size THEN S
        ELSE IF dst.buffer \notin DOMAIN S.buffers[rank] THEN Fail(S, "no_buffer")
        ELSE CopyLoop(
                 UpdateSlotOps(
                     WriteSlot(S, rank, dst.buffer, dst.index + i,
                               ReadSlot(S, rank, src.buffer, src.index + i)),
                     rank, dst.buffer, dst.index + i, op),
                 rank, op, i + 1)

AddCopy(S, rank, tbid0, step, ch, op) ==
    LET g == PickTbid(S, rank, tbid0, "cpy", -1, ch)
        tbid == g.tbid
        S1 == FillDependence(g.S, rank, op, tbid)
        S2 == CopyLoop(S1, rank, op, 0)
    IN  IF S2.failure # "none" THEN S2
        ELSE IF tbid \notin DOMAIN S2.tbs[rank]
        THEN [S2 EXCEPT !.tbs[rank] =
                 (tbid :> Threadblock(ch, -1, -1, (step :> op))) @@ @]
        ELSE [S2 EXCEPT !.tbs[rank][tbid].ops = (step :> op) @@ @]

\* buffers[dst][dst.index+i] = reduce_chunk.reduce(other_chunk); the loop ends
\* at the first index whose reduce raises
RECURSIVE ReduceLoop(_, _, _, _)
ReduceLoop(S, rank, op, i) ==
    LET src == S.ops[op].src
        dst == S.ops[op].dst
        reduce_chunk == ReadSlot(S, rank, dst.buffer, dst.index + i)
        other_chunk == ReadSlot(S, src.rank, src.buffer, src.index + i)
        value == ChunkReduce(reduce_chunk, other_chunk)
    IN  IF i >= src.size THEN S
        ELSE IF dst.buffer \notin DOMAIN S.buffers[rank] THEN Fail(S, "no_buffer")
        ELSE IF value = Raised THEN Fail(S, "reduce_none")
        ELSE ReduceLoop(
                 UpdateSlotOps(WriteSlot(S, rank, dst.buffer, dst.index + i, value),
                               rank, dst.buffer, dst.index + i, op),
                 rank, op, i + 1)

AddReceiveReduceCopy(S, rank, tbid0, step, ch, op) ==
    LET receivefrom == S.ops[op].src.rank
        g == PickTbid(S, rank, tbid0, "r", receivefrom, ch)
        S1 == FillDependence(g.S, rank, op, g.tbid)
        S2 == ReduceLoop(S1, rank, op, 0)
    IN  IF S2.failure # "none" THEN S2
        ELSE RecvTbs(S2, rank, g.tbid, step, ch, receivefrom, op)

-----------------------------------------------------------------------------
(* Ref.send, Ref._copy, Ref.reduce, Ref._local_reduce.                      *)

\* the assert of send left out
MissingOkMut(ref) == TRUE

\* assert (len(self.missing) == 0)
MissingOk(ref) == ref.missing = {}

\* self.prog.topo.link(self.rank, dst)
Link(src, dst) == <<src, dst>> \in Links

\* the destination buffer and index a send ends up with
ResolveTarget(S, ref, dst, buffer, index) ==
    IF index = -1 /\ buffer = BufNone
    THEN [S |-> S, buffer |-> ref.buffer, index |-> ref.index]
    ELSE IF index = -1 /\ IsScratch(buffer)
    THEN IF buffer \notin DOMAIN S.buffers[dst]
         THEN [S |-> Fail(S, "no_buffer"), buffer |-> buffer, index |-> index]
         ELSE [S |-> [S EXCEPT !.buffers[dst][buffer].index = @ + ref.size],
               buffer |-> buffer, index |-> S.buffers[dst][buffer].index]
    ELSE [S |-> S, buffer |-> buffer, index |-> index]

RefCopy(S, ref, buffer, index, step, tb, ch) ==
    LET dst_chunkref == Ref(buffer, index, ref.size, ref.rank, {})
        S1 == NewOp(S, Op("cpy", ref, dst_chunkref, step))
    IN  AddCopy(S1, ref.rank, tb, step, ch, Len(S1.ops))

\* the recv op is given the step counted from the other end
RefSendMut(S, ref, dst, buffer, index, step, sendtb, recvtb, ch) ==
    IF ~MissingOk(ref) THEN Fail(S, "missing")
    ELSE
    LET S1 == IF ref.size > 1 THEN [S EXCEPT !.run_opt = FALSE] ELSE S
        tgt == ResolveTarget(S1, ref, dst, buffer, index)
        dst_chunkref == Ref(tgt.buffer, tgt.index, ref.size, dst, {})
        S2 == NewOp(tgt.S, Op("s", ref, dst_chunkref, step))
        S3 == AddSend(S2, ref.rank, sendtb, step, ch, Len(S2.ops))
        S4 == NewOp(S3, Op("r", ref, dst_chunkref, MaxStep - step))
    IN  IF tgt.S.failure # "none" THEN tgt.S
        ELSE IF dst = ref.rank
        THEN RefCopy(tgt.S, ref, tgt.buffer, tgt.index, step, sendtb, ch)
        ELSE IF ~Link(ref.rank, dst) THEN Fail(tgt.S, "no_link")
        ELSE IF S3.failure # "none" THEN S3
        ELSE AddRecv(S4, dst, recvtb, MaxStep - step, ch, Len(S4.ops))

RefSend(S, ref, dst, buffer, index, step, sendtb, recvtb, ch) ==
    IF ~MissingOk(ref) THEN Fail(S, "missing")
    ELSE
    LET S1 == IF ref.size > 1 THEN [S EXCEPT !.run_opt = FALSE] ELSE S
        tgt == ResolveTarget(S1, ref, dst, buffer, index)
        dst_chunkref == Ref(tgt.buffer, tgt.index, ref.size, dst, {})
        S2 == NewOp(tgt.S, Op("s", ref, dst_chunkref, step))
        S3 == AddSend(S2, ref.rank, sendtb, step, ch, Len(S2.ops))
        S4 == NewOp(S3, Op("r", ref, dst_chunkref, step))
    IN  IF tgt.S.failure # "none" THEN tgt.S
        ELSE IF dst = ref.rank
        THEN RefCopy(tgt.S, ref, tgt.buffer, tgt.index, step, sendtb, ch)
        ELSE IF ~Link(ref.rank, dst) THEN Fail(tgt.S, "no_link")
        ELSE IF S3.failure # "none" THEN S3
        ELSE AddRecv(S4, dst, recvtb, step, ch, Len(S4.ops))

\* dst_chunkref = self.prog.ranks[dst]...: dst is no name of _local_reduce
RefLocalReduce(S, ref, buffer, index, step, tb, ch) == Fail(S, "name_error")

RefReduce(S, ref, dst, buffer, index, step, sendtb, recvtb, ch) ==
    LET dst_chunkref == Ref(buffer, index, ref.size, dst, {})
        S2 == NewOp(S, Op("s", ref, dst_chunkref, step))
        S3 == AddSend(S2, ref.rank, sendtb, step, ch, Len(S2.ops))
        S4 == NewOp(S3, Op("rrc", ref, dst_chunkref, step))
    IN  IF dst = ref.rank
        THEN RefLocalReduce(S, ref, buffer, index, step, sendtb, ch)
        ELSE IF S3.failure # "none" THEN S3
        ELSE AddReceiveReduceCopy(S4, dst, recvtb, step, ch, Len(S4.ops))

-----------------------------------------------------------------------------
(* The program and the scripts run on it.                                   *)

\* allreduce_init_buffers
InitBuffers ==
    [r \in Ranks |->
        (BufInput :> [c \in 0..(Instances - 1) |-> Chunk(r, c, -1, c)]) @@
        (BufOutput :> [c \in 0..(Instances - 1) |-> None])]

NoCall == [kind |-> "none"]
NoRef == [kind |-> "none"]

TheCall(kind, ref, dst, buffer, index, step, sendtb, recvtb, ch, S) ==
    [kind |-> kind, ref |-> ref, dst |-> dst, buffer |-> buffer, index |-> index,
     step |-> step, sendtb |-> sendtb, recvtb |-> recvtb, ch |-> ch,
     failure |-> S.failure]

\* SCCLProgram.__init__ and Process.__init__
InitProgram ==
    /\ tbs = [r \in Ranks |-> EmptyFn]
    /\ tb_mapping = [r \in Ranks |-> EmptyFn]
    /\ tb_count = [r \in Ranks |-> 0]
    /\ slot_ops = [r \in Ranks |-> EmptyFn]
    /\ buffers = InitBuffers
    /\ ops = <<>>
    /\ run_opt = TRUE
    /\ failure = "none"
    /\ ncalls = 0
    /\ last = NoCall
    /\ held = NoRef

\* no chunk script runs
NoChunks ==
    /\ ca = None
    /\ cb = None
    /\ cc = None
    /\ cres = EmptyFn
    /\ cpc = 0

NoXml == [kind |-> "none"]

\* no program is handed to ir_to_xml
NoEmit ==
    /\ threadblocks = <<>>
    /\ gpu_ops = <<>>
    /\ xml = NoXml

\* RankDAG.__init__
InitDag ==
    /\ dag_ops = <<>>
    /\ operations = <<>>
    /\ dag_pc = "build"
    /\ dag_n = 0

\* no threadblocks are assigned, nothing is replicated
NoReplica ==
    /\ dag_tbs = <<>>
    /\ num_channels = <<>>
    /\ dag_buffers = <<>>
    /\ instanced_tbs = <<>>
    /\ instanced_ops = <<>>
    /\ rep_call = NoCall

\* no program object but the one the scripts run on; no region is entered
NoRegion ==
    /\ programs = <<>>
    /\ current_program = 0

Store(S) ==
    /\ tbs' = S.tbs
    /\ tb_mapping' = S.tb_mapping
    /\ tb_count' = S.tb_count
    /\ slot_ops' = S.slot_ops
    /\ buffers' = S.buffers
    /\ ops' = S.ops
    /\ run_opt' = S.run_opt
    /\ failure' = S.failure
    /\ ncalls' = ncalls + 1

Running == failure = "none" /\ ncalls < MaxCalls

\* Process.get_ref / Process.input: a Ref with nothing missing
GetRef(rank, buffer, index, size) == Ref(buffer, index, size, rank, {})

Issue(kind, S, ref, dst, buffer, index, step, sendtb, recvtb, ch) ==
    /\ Store(S)
    /\ UNCHANGED <<held, pureVars>>
    /\ last' = TheCall(kind, ref, dst, buffer, index, step, sendtb, recvtb, ch, S)

\* ranks[rank].get_ref(sbuffer, sindex, size).send(dst, buffer, index, step, sendtb, recvtb, ch)
SendCall(rank, sbuffer, sindex, size, dst, buffer, index, step, sendtb, recvtb, ch) ==
    /\ Running
    /\ LET ref == GetRef(rank, sbuffer, sindex, size)
           S == RefSend(Cur, ref, dst, buffer, index, step, sendtb, recvtb, ch)
       IN  Issue("send", S, ref, dst, buffer, index, step, sendtb, recvtb, ch)

\* ranks[rank].get_ref(sbuffer, sindex, size).reduce(dst, buffer, index, step, sendtb, recvtb, ch)
ReduceCall(rank, sbuffer, sindex, size, dst, buffer, index, step, sendtb, recvtb, ch) ==
    /\ Running
    /\ LET ref == GetRef(rank, sbuffer, sindex, size)
           S == RefReduce(Cur, ref, dst, buffer, index, step, sendtb, recvtb, ch)
       IN  Issue("reduce", S, ref, dst, buffer, index, step, sendtb, recvtb, ch)

-----------------------------------------------------------------------------
(* Spec: scripts that move chunk 0 of the input buffers between the three   *)
(* ranks, with steps and threadblock ids of the script's choosing.          *)

Steps == 0..MaxStep
TbChoices == {-1, 0}
Channels == {0}

PeerSend ==
    \E r \in Ranks, dst \in Ranks, step \in Steps, sendtb \in TbChoices,
       recvtb \in TbChoices, ch \in Channels :
        SendCall(r, BufInput, 0, 1, dst, BufInput, 0, step, sendtb, recvtb, ch)

PeerReduce ==
    \E r \in Ranks, dst \in Ranks, step \in Steps, sendtb \in TbChoices,
       recvtb \in TbChoices, ch \in Channels :
        ReduceCall(r, BufInput, 0, 1, dst, BufInput, 0, step, sendtb, recvtb, ch)

Init == InitProgram /\ NoChunks /\ NoEmit /\ InitDag /\ NoReplica /\ NoRegion

Next == PeerSend \/ PeerReduce

Spec == Init /\ [][Next]_vars

-----------------------------------------------------------------------------
(* What a schedule is made of.                                              *)

\* the ops a threadblock of some rank holds
HeldOps ==
    {o \in 1..Len(ops) :
        \E r \in Ranks : \E t \in DOMAIN tbs[r] : \E s \in DOMAIN tbs[r][t].ops :
            tbs[r][t].ops[s] = o}

IsRecvFamily(o) == ops[o].inst \in {"r", "rrc"}

\* the rank whose Process holds the op
OpRank(o) == IF IsRecvFamily(o) THEN ops[o].dst.rank ELSE ops[o].src.rank

\* Ref.send and Ref.reduce construct the send op and then its recv-family op
MatchedSend(o) == o - 1

\* a must have run before b can run
RunsBefore(a, b) ==
    \/ /\ OpRank(a) = OpRank(b)
       /\ ops[a].tb = ops[b].tb
       /\ ops[a].step < ops[b].step
    \/ /\ \E k \in 1..Len(ops[b].depends) : ops[b].depends[k] = a
       /\ ops[a].tb # ops[b].tb
    \/ /\ IsRecvFamily(b)
       /\ a = MatchedSend(b)

RECURSIVE ReachFrom(_, _)
ReachFrom(seen, frontier) ==
    IF frontier = {} THEN seen
    ELSE LET new == {b \in HeldOps : \E a \in frontier : RunsBefore(a, b)} \ seen
         IN ReachFrom(seen \cup new, new)

\* the ops that can only run after a
After(a) == ReachFrom({}, {a})

ScheduleAcyclic == \A a \in HeldOps : a \notin After(a)

-----------------------------------------------------------------------------
(* Claims checked under Spec.                                               *)

SendTbid(c) == PickTbid(Cur, c.ref.rank, c.sendtb, "s", c.dst, c.ch).tbid
RecvTbid(c) == PickTbid(Cur, c.dst, c.recvtb, "r", c.ref.rank, c.ch).tbid

PeersOfHeldOps ==
    \A r \in Ranks : \A t \in DOMAIN tbs[r] : \A s \in DOMAIN tbs[r][t].ops :
        LET o == ops[tbs[r][t].ops[s]] IN
        /\ o.inst = "s" => o.dst.rank = tbs[r][t].send
        /\ o.inst \in {"r", "rrc"} => o.src.rank = tbs[r][t].recv

SendPeerConflict(c) ==
    /\ c.kind \in {"send", "reduce"}
    /\ c.dst # c.ref.rank
    /\ SendTbid(c) \in DOMAIN tbs[c.ref.rank]
    /\ tbs[c.ref.rank][SendTbid(c)].send \notin {-1, c.dst}

RecvPeerConflict(c) ==
    /\ c.kind \in {"send", "reduce"}
    /\ c.dst # c.ref.rank
    /\ RecvTbid(c) \in DOMAIN tbs[c.dst]
    /\ tbs[c.dst][RecvTbid(c)].recv \notin {-1, c.ref.rank}

ConflictingAddFails ==
    /\ SendPeerConflict(last') => failure' # "none" /\ tbs' = tbs
    /\ RecvPeerConflict(last') => failure' # "none" /\ tbs'[last'.dst] = tbs[last'.dst]

\* C1: every send op a threadblock holds targets tb.send and every recv or
\* recv_reduce_copy op it holds receives from tb.recv, in every state; a call
\* that adds a send (recv) to a threadblock bound to another send (recv) peer
\* fails and adds no op to that threadblock.
C1_OnePeerPerThreadblock == []PeersOfHeldOps /\ [][ConflictingAddFails]_vars

\* a threadblock holds two sends, and a script ended on a peer conflict
C1_Witness ==
    \/ failure = "tb_send_peer"
    \/ \E r \in Ranks : \E t \in DOMAIN tbs[r] :
          Cardinality({s \in DOMAIN tbs[r][t].ops : ops[tbs[r][t].ops[s]].inst = "s"}) = 2

\* C3: the schedule of every accepted script is free of deadlock: the graph
\* of the cross-threadblock depends edges, the step order inside each
\* threadblock and the send-to-matched-recv pairs has no cycle.
C3_NoDeadlock == failure = "none" => ScheduleAcyclic

\* C8: every recorded transfer between two different ranks goes over a link
\* of the topology.
C8_TransfersFollowLinks ==
    \A o \in HeldOps :
        ops[o].inst = "s" => Link(ops[o].src.rank, ops[o].dst.rank)

-----------------------------------------------------------------------------
(* SpecBuf: scripts of two ranks that send and reduce Refs of one or two    *)
(* chunks between any slots of the input and output buffers; threadblocks   *)
(* are assigned automatically and every call has a step of its own.         *)

BufRanks == {0, 1}
BufNames == {BufInput, BufOutput}
Sizes == {1, 2}

BufSend ==
    \E r \in BufRanks, sbuffer \in BufNames, sindex \in 0..(Instances - 1),
       size \in Sizes, dst \in BufRanks, buffer \in BufNames,
       index \in 0..(Instances - 1) :
        /\ sindex + size <= Instances
        /\ index + size <= Instances
        /\ SendCall(r, sbuffer, sindex, size, dst, buffer, index, ncalls, -1, -1, 0)

BufReduce ==
    \E r \in BufRanks, sbuffer \in BufNames, sindex \in 0..(Instances - 1),
       size \in Sizes, dst \in BufRanks, buffer \in BufNames,
       index \in 0..(Instances - 1) :
        /\ sindex + size <= Instances
        /\ index + size <= Instances
        /\ ReduceCall(r, sbuffer, sindex, size, dst, buffer, index, ncalls, -1, -1, 0)

NextBuf == BufSend \/ BufReduce

SpecBuf == Init /\ [][NextBuf]_vars

\* the slots of the buffers of all ranks
Slots(bufs) ==
    {<<r, b, i>> \in Ranks \X {BufInput, BufOutput} \X (0..(Instances - 1)) : TRUE}
    \cup UNION {UNION {{<<r, b, i>> : i \in DOMAIN bufs[r][b].chunks} :
                       b \in {n \in DOMAIN bufs[r] : IsScratch(n)}} : r \in Ranks}

SlotVal(bufs, rank, buffer, index) ==
    IF IsScratch(buffer) THEN bufs[rank][buffer].chunks[index]
    ELSE bufs[rank][buffer][index]

\* the slots a call of size chunks writes at (rank, buffer, index)
SlotRange(rank, buffer, index, size) ==
    {<<rank, buffer, index + t>> : t \in 0..(size - 1)}

OtherSlotsUnchanged(written) ==
    \A sl \in Slots(buffers') \ written :
        /\ sl \in Slots(buffers)
        /\ SlotVal(buffers', sl[1], sl[2], sl[3]) = SlotVal(buffers, sl[1], sl[2], sl[3])

SendMovesChunks ==
    (last'.kind = "send" /\ last'.failure = "none") =>
        LET c == last'
            tgt == ResolveTarget(Cur, c.ref, c.dst, c.buffer, c.index)
        IN  /\ \A t \in 0..(c.ref.size - 1) :
                   SlotVal(buffers', c.dst, tgt.buffer, tgt.index + t) =
                   SlotVal(buffers, c.ref.rank, c.ref.buffer, c.ref.index + t)
            /\ OtherSlotsUnchanged(SlotRange(c.dst, tgt.buffer, tgt.index, c.ref.size))

\* C5: a successful send of a Ref of size k, a local copy with overlapping
\* source and destination ranges included, leaves in each destination slot
\* the chunk its source slot held when send was called, and changes no other
\* slot.
C5_SendMovesChunks == [][SendMovesChunks]_vars

\* the members of what a slot holds
MembersOf(v) ==
    CASE v.kind = "chunk" -> <<v>>
      [] v.kind = "reduce" -> v.chunks
      [] OTHER -> <<>>

CountIn(seq, x) == Cardinality({k \in 1..Len(seq) : seq[k] = x})

SameMembers(s, t) ==
    \A x \in {s[k] : k \in 1..Len(s)} \cup {t[k] : k \in 1..Len(t)} :
        CountIn(s, x) = CountIn(t, x)

ReduceMergesMembers ==
    LET c == last' IN
    (/\ c.kind = "reduce"
     /\ c.failure = "none"
     /\ \A t \in 0..(c.ref.size - 1) :
            SlotVal(buffers, c.dst, c.buffer, c.index + t) # None) =>
        /\ \A t \in 0..(c.ref.size - 1) :
               LET new == SlotVal(buffers', c.dst, c.buffer, c.index + t)
                   old == SlotVal(buffers, c.dst, c.buffer, c.index + t)
                   src == SlotVal(buffers, c.ref.rank, c.ref.buffer, c.ref.index + t)
               IN  /\ new.kind = "reduce"
                   /\ SameMembers(MembersOf(new), MembersOf(old) \o MembersOf(src))
        /\ OtherSlotsUnchanged(SlotRange(c.dst, c.buffer, c.index, c.ref.size))

\* C6: a successful reduce into destination slots that all hold a chunk
\* leaves in each destination slot a ReduceChunk whose members are the
\* members the slot had and the members of the source slot, as a multiset,
\* and changes no other slot.
C6_ReduceMergesMembers == [][ReduceMergesMembers]_vars

-----------------------------------------------------------------------------
(* Ref.group and Process.create_scratch.                                    *)

Max(a, b) == IF a > b THEN a ELSE b
Min(a, b) == IF a < b THEN a ELSE b

\* the whole range counts as present, missing indices included
PresentMut(ref) == ref.index..(RefEnd(ref) - 1)

\* set(range(ref.index, ref._end())).difference(ref.missing)
Present(ref) == (ref.index..(RefEnd(ref) - 1)) \ ref.missing

\* the two asserts of group
GroupFailure(self, other) ==
    IF self.rank # other.rank THEN "group_rank"
    ELSE IF self.buffer # other.buffer THEN "group_buffer"
    ELSE "none"

Group(self, other) ==
    LET first == IF self.index < other.index THEN self ELSE other
        second == IF self.index < other.index THEN other ELSE self
        end == Max(RefEnd(first), RefEnd(second))
        missing == ((first.index..(end - 1)) \ Present(first)) \ Present(second)
    IN  Ref(self.buffer, first.index, end - first.index, self.rank, missing)

\* assert (name not in self.buffers); self.buffers[name] = BufferSlice(Buffer.scratch)
CreateScratch(S, rank, name) ==
    IF name \in DOMAIN S.buffers[rank] THEN Fail(S, "scratch_exists")
    ELSE [S EXCEPT !.buffers[rank] = (name :> BufferSlice) @@ @]

-----------------------------------------------------------------------------
(* SpecRef: scripts that create a scratch buffer, take a Ref, group it with *)
(* other Refs and send the Ref they hold.                                   *)

\* number of front-end calls a script of SpecRef issues
MaxRefCalls == 4

RefRunning == failure = "none" /\ ncalls < MaxRefCalls

ScratchName == "scr"

\* held = ranks[rank].get_ref(buffer, index, size)
TakeRef(rank, buffer, index, size) ==
    /\ RefRunning
    /\ held = NoRef
    /\ index + size <= Instances
    /\ held' = GetRef(rank, buffer, index, size)
    /\ ncalls' = ncalls + 1
    /\ last' = [kind |-> "get_ref"]
    /\ UNCHANGED <<tbs, tb_mapping, tb_count, slot_ops, buffers, ops, run_opt, failure>>
    /\ UNCHANGED pureVars

\* held = held.group(other) or held = other.group(held)
GroupHeld(rank, buffer, index, size, swap) ==
    /\ RefRunning
    /\ held # NoRef
    /\ index + size <= Instances
    /\ LET other == GetRef(rank, buffer, index, size)
           a == IF swap THEN other ELSE held
           b == IF swap THEN held ELSE other
           f == GroupFailure(a, b)
       IN  /\ failure' = f
           /\ held' = IF f = "none" THEN Group(a, b) ELSE held
           /\ last' = [kind |-> "group", self |-> a, other |-> b, failure |-> f]
    /\ ncalls' = ncalls + 1
    /\ UNCHANGED <<tbs, tb_mapping, tb_count, slot_ops, buffers, ops, run_opt>>
    /\ UNCHANGED pureVars

\* held.send(dst, buffer, index, step=ncalls)
SendHeld(dst, buffer, index) ==
    /\ RefRunning
    /\ held # NoRef
    /\ LET S == RefSend(Cur, held, dst, buffer, index, ncalls, -1, -1, 0)
       IN  Issue("send", S, held, dst, buffer, index, ncalls, -1, -1, 0)

\* ranks[rank].create_scratch(name)
ScratchCall(rank, name) ==
    /\ RefRunning
    /\ Store(CreateScratch(Cur, rank, name))
    /\ last' = [kind |-> "create_scratch", rank |-> rank, name |-> name]
    /\ UNCHANGED <<held, pureVars>>

RefTake ==
    \E rank \in BufRanks, buffer \in BufNames, index \in 0..(Instances - 1),
       size \in Sizes : TakeRef(rank, buffer, index, size)

RefGroup ==
    \E rank \in BufRanks, buffer \in BufNames, index \in 0..(Instances - 1),
       size \in Sizes, swap \in BOOLEAN : GroupHeld(rank, buffer, index, size, swap)

RefSendHeld ==
    \E dst \in BufRanks, buffer \in {BufInput, ScratchName}, index \in {-1, 0} :
        SendHeld(dst, buffer, index)

RefScratch == \E rank \in BufRanks : ScratchCall(rank, ScratchName)

NextRef == RefTake \/ RefGroup \/ RefSendHeld \/ RefScratch

SpecRef == Init /\ [][NextRef]_vars

SendOfIncompleteRef ==
    (last'.kind = "send" /\ last'.ref.missing # {}) =>
        /\ failure' = "missing"
        /\ UNCHANGED <<tbs, tb_mapping, tb_count, slot_ops, buffers, ops, run_opt>>

\* C9: send on a Ref whose missing set is not empty fails with the
\* missing-indices error and changes nothing: no op is added to a
\* threadblock or to slot_ops, no buffer slot changes and no scratch index is
\* allocated.
C9_IncompleteSendHasNoEffect == [][SendOfIncompleteRef]_vars

\* a grouped Ref with a hole was sent to the next free index of a scratch
\* buffer that exists on the destination
C9_Witness ==
    /\ last.kind = "send"
    /\ last.ref.missing # {}
    /\ failure = "missing"
    /\ last.index = -1
    /\ last.buffer \in DOMAIN buffers[last.dst]
    /\ IsScratch(last.buffer)

\* the indices of a Ref that are not missing
Covered(ref) == {k \in ref.index..(RefEnd(ref) - 1) : k \notin ref.missing}

GroupIsSpan ==
    last'.kind = "group" =>
        LET a == last'.self
            b == last'.other
            g == held'
        IN  IF a.rank = b.rank /\ a.buffer = b.buffer
            THEN /\ failure' = "none"
                 /\ g.rank = a.rank
                 /\ g.buffer = a.buffer
                 /\ g.index = Min(a.index, b.index)
                 /\ RefEnd(g) = Max(RefEnd(a), RefEnd(b))
                 /\ g.missing = {k \in g.index..(RefEnd(g) - 1) :
                                    k \notin Covered(a) /\ k \notin Covered(b)}
                 /\ Group(b, a) = g
            ELSE /\ failure' # "none"
                 /\ held' = held

-----------------------------------------------------------------------------
(* Chunk.__eq__, Chunk.__lt__, ReduceChunk.sort, ReduceChunk.__eq__.        *)

\* Chunk.__eq__ for two Chunks: the origin only
ChunkEq(self, other) ==
    self.origin_rank = other.origin_rank /\ self.origin_index = other.origin_index

\* Chunk.__lt__
ChunkLt(self, other) ==
    \/ self.origin_rank < other.origin_rank
    \/ /\ self.origin_rank = other.origin_rank
       /\ self.origin_index < other.origin_index

\* x goes in front of the first element it is less than
InsertChunk(sorted, x) ==
    LET later == {k \in 1..Len(sorted) : ChunkLt(x, sorted[k])}
        at == IF later = {} THEN Len(sorted) + 1
              ELSE CHOOSE k \in later : \A j \in later : k <= j
    IN  SubSeq(sorted, 1, at - 1) \o <<x>> \o SubSeq(sorted, at, Len(sorted))

RECURSIVE SortFrom(_, _)
SortFrom(sorted, rest) ==
    IF rest = <<>> THEN sorted
    ELSE SortFrom(InsertChunk(sorted, Head(rest)), Tail(rest))

\* the list stays as it is
SortChunksMut(chunks) == chunks

\* self.chunks.sort(): a stable sort that compares with __lt__
SortChunks(chunks) == SortFrom(<<>>, chunks)

\* list == list: same length and equal elements, position by position
ListEq(s, t) ==
    /\ Len(s) = Len(t)
    /\ \A k \in 1..Len(s) : ChunkEq(s[k], t[k])

\* self == other as Python evaluates it for a Chunk or ReduceChunk self
Equal(self, other) ==
    IF self.kind = "chunk"
    THEN IF other.kind = "chunk" /\ ChunkEq(self, other) THEN "True" ELSE "False"
    ELSE IF other.kind # "reduce" THEN "raised"
    ELSE IF ListEq(SortChunks(self.chunks), SortChunks(other.chunks)) THEN "True"
    ELSE "False"

\* what self.sort() of __eq__ leaves in a ReduceChunk
Sorted(v) == IF v.kind = "reduce" THEN ReduceChunk(SortChunks(v.chunks)) ELSE v

-----------------------------------------------------------------------------
(* SpecChunk: a script that reduces three chunks in both orders and both    *)
(* groupings and compares the first two.                                    *)

\* member lists of the ReduceChunks a script starts with have 0..MaxMembers chunks
MaxMembers == 2

\* two chunks of the same origin with different destinations, and a third
ChunkValues == {Chunk(0, 0, -1, 0), Chunk(0, 0, 1, 0), Chunk(1, 0, -1, 0)}

ChunkLists == UNION {[1..n -> ChunkValues] : n \in 0..MaxMembers}

Operands == ChunkValues \cup {ReduceChunk(l) : l \in ChunkLists}

InitChunk ==
    /\ InitProgram
    /\ NoEmit
    /\ InitDag
    /\ NoReplica
    /\ NoRegion
    /\ ca \in Operands
    /\ cb \in Operands
    /\ cc \in Operands
    /\ cres = EmptyFn
    /\ cpc = 0

Compute(at, name, value) ==
    /\ cpc = at
    /\ cres' = (name :> value) @@ cres
    /\ cpc' = cpc + 1
    /\ UNCHANGED <<facadeVars, held, emitVars, dagVars, repVars, regionVars>>

\* ab = a.reduce(b)
ReduceAB == Compute(0, "ab", ChunkReduce(ca, cb)) /\ UNCHANGED <<ca, cb, cc>>

\* ba = b.reduce(a)
ReduceBA == Compute(1, "ba", ChunkReduce(cb, ca)) /\ UNCHANGED <<ca, cb, cc>>

\* ab_c = ab.reduce(c)
ReduceABthenC == Compute(2, "ab_c", ChunkReduce(cres.ab, cc)) /\ UNCHANGED <<ca, cb, cc>>

\* bc = b.reduce(c)
ReduceBC == Compute(3, "bc", ChunkReduce(cb, cc)) /\ UNCHANGED <<ca, cb, cc>>

\* a_bc = a.reduce(bc)
ReduceAthenBC == Compute(4, "a_bc", ChunkReduce(ca, cres.bc)) /\ UNCHANGED <<ca, cb, cc>>

\* eq = (a == b), which sorts the two ReduceChunks in place
CompareAB ==
    /\ Compute(5, "eq", Equal(ca, cb))
    /\ ca' = IF ca.kind = "reduce" /\ cb.kind = "reduce" THEN Sorted(ca) ELSE ca
    /\ cb' = IF ca.kind = "reduce" /\ cb.kind = "reduce" THEN Sorted(cb) ELSE cb
    /\ cc' = cc

NextChunk ==
    ReduceAB \/ ReduceBA \/ ReduceABthenC \/ ReduceBC \/ ReduceAthenBC \/ CompareAB

SpecChunk == InitChunk /\ [][NextChunk]_vars

\* t is s in another order, chunks told apart by origin only
IsPermutation(s, t) ==
    /\ Len(s) = Len(t)
    /\ \E p \in Permutations(1..Len(s)) : \A k \in 1..Len(s) : ChunkEq(s[k], t[p[k]])

\* C7: two ReduceChunks are equal exactly when their member lists are
\* permutations of each other, chunks compared by origin only; a.reduce(b)
\* equals b.reduce(a), and (a.reduce(b)).reduce(c) equals
\* a.reduce(b.reduce(c)).
C7_ReduceChunkEquality ==
    /\ (cpc > 5 /\ ca.kind = "reduce" /\ cb.kind = "reduce") =>
           (cres.eq = "True" <=> IsPermutation(ca.chunks, cb.chunks))
    /\ cpc > 1 => Equal(cres.ab, cres.ba) = "True"
    /\ cpc > 4 => Equal(cres.ab_c, cres.a_bc) = "True"

\* two ReduceChunks of two members whose chunks differ in their destination
\* compared equal, and their reduce in the two orders gave different lists
C7_Witness ==
    /\ cpc > 5
    /\ ca.kind = "reduce"
    /\ cb.kind = "reduce"
    /\ cres.eq = "True"
    /\ Len(ca.chunks) = 2
    /\ \E k \in 1..Len(ca.chunks) : ca.chunks[k] # cb.chunks[k]
    /\ cres.ab.chunks # cres.ba.chunks

-----------------------------------------------------------------------------
(* ir_to_xml: the threadblock order, the two dependence filters, the nop    *)
(* expansion and the attributes of the steps.                               *)

\* the program ir_to_xml works on
Emit == [tbs |-> threadblocks, ops |-> gpu_ops]

\* key=lambda tb: (tb.send, tb.recv, tb.channel), compared as tuples
TbKeyLt(a, b) ==
    \/ a.send < b.send
    \/ a.send = b.send /\ a.recv < b.recv
    \/ a.send = b.send /\ a.recv = b.recv /\ a.channel < b.channel

InsertTb(sorted, tb) ==
    LET later == {k \in 1..Len(sorted) : TbKeyLt(tb, sorted[k])}
        at == IF later = {} THEN Len(sorted) + 1
              ELSE CHOOSE k \in later : \A j \in later : k <= j
    IN  SubSeq(sorted, 1, at - 1) \o <<tb>> \o SubSeq(sorted, at, Len(sorted))

RECURSIVE SortTbsFrom(_, _)
SortTbsFrom(sorted, rest) ==
    IF rest = <<>> THEN sorted
    ELSE SortTbsFrom(InsertTb(sorted, Head(rest)), Tail(rest))

\* gpu.threadblocks = sorted(gpu.threadblocks, key=...), a stable sort
SortTbs(E) == [E EXCEPT !.tbs = SortTbsFrom(<<>>, E.tbs)]

\* op_tb_id[op]
OpTbId(E, op) ==
    (CHOOSE t \in 1..Len(E.tbs) :
        \E i \in 1..Len(E.tbs[t].ops) : E.tbs[t].ops[i] = op) - 1

\* the dependencies within a threadblock are kept
FilterSameTbMut(E) == E

\* op.depends = list(filter(lambda dep: op_tb_id[dep] != tb_id[tb], op.depends))
FilterSameTb(E) ==
    [E EXCEPT !.ops =
        [o \in DOMAIN E.ops |->
            [E.ops[o] EXCEPT !.depends =
                SelectSeq(@, LAMBDA dep : OpTbId(E, dep) # OpTbId(E, o))]]]

SeqRange(seq) == {seq[k] : k \in 1..Len(seq)}

\* the loop over the ops of one threadblock with its running_depends
RECURSIVE FilterRunning(_, _, _, _)
FilterRunning(E, t, i, running_depends) ==
    IF i > Len(E.tbs[t].ops) THEN E
    ELSE LET op == E.tbs[t].ops[i]
             depends == SelectSeq(E.ops[op].depends,
                                  LAMBDA dep : dep \notin SeqRange(running_depends))
         IN  FilterRunning([E EXCEPT !.ops[op].depends = depends], t, i + 1,
                           running_depends \o depends)

RECURSIVE FilterRedundantFrom(_, _)
FilterRedundantFrom(E, t) ==
    IF t > Len(E.tbs) THEN E
    ELSE FilterRedundantFrom(FilterRunning(E, t, 1, <<>>), t + 1)

FilterRedundant(E) == FilterRedundantFrom(E, 1)

\* has_dependence
HasDependence(E) == UNION {SeqRange(E.ops[o].depends) : o \in DOMAIN E.ops}

\* Op(Instruction.nop, -1, None, None, [dep])
Nop(dep) == [inst |-> "nop", depends |-> <<dep>>]

\* the extra dependences are dropped
ExtraDepsMut(depends) == <<>>

\* extra_deps = op.depends[1:]
ExtraDeps(depends) == Tail(depends)

\* new_ops.append(Op(Instruction.nop, ...)) for every dep of extra_deps
RECURSIVE AppendNops(_, _)
AppendNops(R, extra_deps) ==
    IF extra_deps = <<>> THEN R
    ELSE AppendNops([E |-> [R.E EXCEPT !.ops = Append(@, Nop(Head(extra_deps)))],
                     new_ops |-> Append(R.new_ops, Len(R.E.ops) + 1)],
                    Tail(extra_deps))

RECURSIVE ExpandTb(_, _, _, _)
ExpandTb(E, t, i, new_ops) ==
    IF i > Len(E.tbs[t].ops) THEN [E EXCEPT !.tbs[t].ops = new_ops]
    ELSE LET op == E.tbs[t].ops[i]
             depends == E.ops[op].depends
         IN  IF Len(depends) > 1
             THEN LET R == AppendNops(
                               [E |-> [E EXCEPT !.ops[op].depends = SubSeq(depends, 1, 1)],
                                new_ops |-> new_ops],
                               ExtraDeps(depends))
                  IN  ExpandTb(R.E, t, i + 1, Append(R.new_ops, op))
             ELSE ExpandTb(E, t, i + 1, Append(new_ops, op))

RECURSIVE ExpandFrom(_, _)
ExpandFrom(E, t) ==
    IF t > Len(E.tbs) THEN E
    ELSE ExpandFrom(ExpandTb(E, t, 1, <<>>), t + 1)

Expand(E) == ExpandFrom(E, 1)

\* op_idx[op]
OpIdx(E, op) ==
    LET t == OpTbId(E, op) + 1
    IN  (CHOOSE i \in 1..Len(E.tbs[t].ops) : E.tbs[t].ops[i] = op) - 1

\* the attributes of the step element of one op
StepElem(E, has_dependence, op) ==
    [s |-> OpIdx(E, op),
     type |-> E.ops[op].inst,
     depid |-> IF Len(E.ops[op].depends) = 1 THEN OpTbId(E, E.ops[op].depends[1]) ELSE -1,
     deps |-> IF Len(E.ops[op].depends) = 1 THEN OpIdx(E, E.ops[op].depends[1]) ELSE -1,
     hasdep |-> IF op \in has_dependence THEN 1 ELSE 0]

\* assert len(op.depends) <= 1
DependsOk(E) == \A o \in DOMAIN E.ops : Len(E.ops[o].depends) <= 1

\* the tb elements with their step elements, or the failed assert
Xml(E, has_dependence) ==
    IF ~DependsOk(E) THEN [kind |-> "assertion"]
    ELSE [kind |-> "algo",
          tbs |-> [t \in 1..Len(E.tbs) |->
                      [id |-> t - 1, send |-> E.tbs[t].send, recv |-> E.tbs[t].recv,
                       chan |-> E.tbs[t].channel,
                       steps |-> [i \in 1..Len(E.tbs[t].ops) |->
                                     StepElem(E, has_dependence, E.tbs[t].ops[i])]]]]

\* the program as the nop expansion finds it
BeforeExpansion(E) == FilterRedundant(FilterSameTb(SortTbs(E)))

IrToXml ==
    /\ xml = NoXml
    /\ LET B == BeforeExpansion(Emit)
           E == Expand(B)
       IN  /\ threadblocks' = E.tbs
           /\ gpu_ops' = E.ops
           /\ xml' = Xml(E, HasDependence(B))
           /\ last' = [kind |-> "ir_to_xml",
                       depends |-> [o \in DOMAIN gpu_ops |-> gpu_ops[o].depends],
                       filtered |-> [o \in DOMAIN gpu_ops |-> B.ops[o].depends]]
    /\ UNCHANGED <<tbs, tb_mapping, tb_count, slot_ops, buffers, ops, run_opt, failure,
                   ncalls>>
    /\ UNCHANGED <<held, chunkVars, dagVars, repVars, regionVars>>

-----------------------------------------------------------------------------
(* SpecEmit: programs of one gpu with a threadblock of two ops and three    *)
(* threadblocks of one op; the two ops depend on any of the other ops, in   *)
(* any order.                                                               *)

\* an op of the programs depends on at most MaxDepends ops
MaxDepends == 3

EmitOp(inst, depends) == [inst |-> inst, depends |-> depends]

\* the lists of distinct ops, of at most MaxDepends ops, taken from the candidates
DependsLists(candidates) ==
    {l \in UNION {[1..n -> candidates] : n \in 0..MaxDepends} :
        \A j, k \in 1..Len(l) : j # k => l[j] # l[k]}

InitEmit ==
    /\ InitProgram
    /\ NoChunks
    /\ InitDag
    /\ NoReplica
    /\ NoRegion
    /\ \E send \in {0, 2} :
          threadblocks = << Threadblock(0, send, -1, <<1, 2>>),
                            Threadblock(0, 1, 2, <<3>>),
                            Threadblock(0, 1, 0, <<4>>),
                            Threadblock(0, 3, -1, <<5>>) >>
    /\ \E d1 \in DependsLists({2, 3, 4, 5}), d2 \in DependsLists({1, 3, 4, 5}),
          d3 \in DependsLists({1}) :
          gpu_ops = << EmitOp("r", d1), EmitOp("s", d2), EmitOp("s", d3),
                       EmitOp("s", <<>>), EmitOp("s", <<>>) >>
    /\ xml = NoXml

NextEmit == IrToXml

SpecEmit == InitEmit /\ [][NextEmit]_vars

\* the positions of op in the ops of threadblock t
PlaceOf(tbseq, t, op) == CHOOSE i \in 1..Len(tbseq[t].ops) : tbseq[t].ops[i] = op

NopsCarryExtraDeps ==
    (xml = NoXml /\ xml' # NoXml) =>
        LET B == BeforeExpansion(Emit) IN
        /\ xml'.kind = "algo"
        /\ \A o \in DOMAIN gpu_ops' : Len(gpu_ops'[o].depends) <= 1
        /\ \A t \in 1..Len(B.tbs) : \A i \in 1..Len(B.tbs[t].ops) :
              LET op == B.tbs[t].ops[i]
                  k == Len(B.ops[op].depends)
                  at == PlaceOf(threadblocks', t, op)
                  nops == {threadblocks'[t].ops[j] : j \in (at - (k - 1))..(at - 1)}
              IN  k > 1 =>
                      /\ at > k - 1
                      /\ Cardinality(nops) = k - 1
                      /\ \A n \in nops : /\ gpu_ops'[n].inst = "nop"
                                         /\ Len(gpu_ops'[n].depends) = 1
                                         /\ gpu_ops'[n].depends[1] # gpu_ops'[op].depends[1]
                      /\ Len(gpu_ops'[op].depends) = 1
                      /\ {gpu_ops'[n].depends[1] : n \in nops}
                             \cup {gpu_ops'[op].depends[1]}
                         = SeqRange(B.ops[op].depends)

\* C2: after ir_to_xml every op carries at most one dependency; an op that
\* had k > 1 cross-threadblock dependencies is immediately preceded in its
\* threadblock by k - 1 nops, each carrying one of the other dependencies,
\* and the dependencies of the nops with the one the op keeps are the
\* dependencies the op had before the expansion.
C2_NopsCarryExtraDeps == [][NopsCarryExtraDeps]_vars

\* an emitted threadblock has an op behind two nops
C2_Witness ==
    /\ xml # NoXml
    /\ \E t \in 1..Len(threadblocks) :
          \E i \in 1..(Len(threadblocks[t].ops) - 2) :
              /\ gpu_ops[threadblocks[t].ops[i]].inst = "nop"
              /\ gpu_ops[threadblocks[t].ops[i + 1]].inst = "nop"
              /\ gpu_ops[threadblocks[t].ops[i + 2]].inst # "nop"

-----------------------------------------------------------------------------
(* RankDAG: add_start, add_send, add_recv, add_recv_reduce_copy,            *)
(* convert_set_list, remove_op and the two fusion passes.  The ordering     *)
(* fields chunk_step and priority take no part in them and are left out.    *)
(* The lowering that calls the RankDAG and links the match lists is not     *)
(* part of the sources; it follows sections 4.3 to 4.5 of the               *)
(* specification.                                                           *)

ChunkRef(rank, buffer, index, size) ==
    [rank |-> rank, buffer |-> buffer, index |-> index, size |-> size]

\* Op(inst, rank, src, dst, next=set(), prev=set(), tb=tb, channel=ch)
DagOp(inst, rank, src, dst, tb, channel) ==
    [inst |-> inst, rank |-> rank, src |-> src, dst |-> dst, tb |-> tb,
     channel |-> channel, prev |-> {}, next |-> {}, match |-> <<>>]

\* the RankDAG the calls work on
Dag == [ops |-> dag_ops, operations |-> operations]

HasSlot(D, slot) == \E k \in 1..Len(D.operations) : D.operations[k].slot = slot

\* self.operations[slot]
SlotOp(D, slot) ==
    D.operations[CHOOSE k \in 1..Len(D.operations) : D.operations[k].slot = slot].op

\* self.operations[slot] = op
SetSlotOp(D, slot, op) ==
    IF HasSlot(D, slot)
    THEN [D EXCEPT !.operations =
             [k \in 1..Len(D.operations) |->
                 IF D.operations[k].slot = slot THEN [slot |-> slot, op |-> op]
                 ELSE D.operations[k]]]
    ELSE [D EXCEPT !.operations = Append(@, [slot |-> slot, op |-> op])]

DagNewOp(D, op) == [D EXCEPT !.ops = Append(@, op)]

\* Op.is_send
IsSend(op) == op.inst \in {"s", "rrcs", "rcs", "rrs"}

\* Op.is_recv
IsRecv(op) == op.inst \in {"r", "rrc", "rrcs", "rcs", "rrs"}

\* Op.cnt
Cnt(op) == op.src.size

WritesToSlot(op, slot) ==
    IF op.inst = "cpy" \/ op.inst = "re"
    THEN \/ slot[2] # op.src.buffer
         \/ slot[3] < op.src.index /\ slot[3] > op.src.index + op.src.size
    ELSE op.inst # "s"

\* the flag dfs returns for op
RECURSIVE LastRecvFlag(_, _, _)
LastRecvFlag(D, o, slot) ==
    IF D.ops[o].next = {} THEN WritesToSlot(D.ops[o], slot)
    ELSE \/ \E c \in D.ops[o].next : LastRecvFlag(D, c, slot)
         \/ WritesToSlot(D.ops[o], slot)

\* the ops dfs can return for op: the children are visited in the order of
\* a set of objects, and the first child that finds a write is taken
RECURSIVE LastRecvOps(_, _, _)
LastRecvOps(D, o, slot) ==
    LET found == {c \in D.ops[o].next : LastRecvFlag(D, c, slot)} IN
    IF found = {} THEN {o}
    ELSE UNION {LastRecvOps(D, c, slot) : c \in found}

\* find_last_recv, for a slot whose root finds a write
FindLastRecv(D, slot) == LastRecvOps(D, SlotOp(D, slot), slot)

\* the leaves below the ops of the frontier
RECURSIVE LeavesBelow(_, _)
LeavesBelow(D, frontier) ==
    IF frontier = {} THEN {}
    ELSE {o \in frontier : D.ops[o].next = {}}
         \cup LeavesBelow(D, UNION {D.ops[o].next : o \in frontier})

\* only the root of the slot is taken
FindLastOpsMut(D, slot) == {SlotOp(D, slot)}

\* find_last_ops
FindLastOps(D, slot) == LeavesBelow(D, {SlotOp(D, slot)})

\* prev_op.next.add(op); op.prev.add(prev_op) for every prev_op
LinkPrev(D, prev_ops, op) ==
    [D EXCEPT !.ops =
        [o \in DOMAIN D.ops |->
            IF o = op THEN [D.ops[o] EXCEPT !.prev = @ \cup prev_ops]
            ELSE IF o \in prev_ops THEN [D.ops[o] EXCEPT !.next = @ \cup {op}]
            ELSE D.ops[o]]]

DagAddStart(D, rank, buffer, index, ref) ==
    LET D1 == DagNewOp(D, DagOp("st", rank, ref, ref, -1, -1))
    IN  SetSlotOp(D1, <<rank, buffer, index>>, Len(D1.ops))

\* one result of find_last_recv for every slot of the ref
RECURSIVE PrevChoices(_, _, _, _, _)
PrevChoices(D, rank, buffer, index, size) ==
    IF size = 0 THEN {{}}
    ELSE {P \cup {p} : P \in PrevChoices(D, rank, buffer, index + 1, size - 1),
                       p \in FindLastRecv(D, <<rank, buffer, index>>)}

\* add_send, with the ops find_last_recv returned
DagAddSend(D, rank, send_ref, recv_ref, tb, ch, prev_ops) ==
    LET D1 == DagNewOp(D, DagOp("s", rank, send_ref, recv_ref, tb, ch))
    IN  LinkPrev(D1, prev_ops, Len(D1.ops))

\* the loop of add_recv over the slots of recv_ref
RECURSIVE RecvSlots(_, _, _, _, _)
RecvSlots(R, rank, buffer, index, size) ==
    IF size = 0 THEN R
    ELSE LET slot == <<rank, buffer, index>>
             next == IF HasSlot(R.D, slot)
                     THEN [R EXCEPT !.prev_ops = @ \cup FindLastOps(R.D, slot)]
                     ELSE [R EXCEPT !.D = SetSlotOp(@, slot, R.op)]
         IN  RecvSlots(next, rank, buffer, index + 1, size - 1)

\* add_recv (inst "r") and add_recv_reduce_copy (inst "rrc")
DagAddRecv(D, inst, rank, send_ref, recv_ref, tb, ch) ==
    LET D1 == DagNewOp(D, DagOp(inst, rank, send_ref, recv_ref, tb, ch))
        R == RecvSlots([D |-> D1, op |-> Len(D1.ops), prev_ops |-> {}],
                       rank, recv_ref.buffer, recv_ref.index, recv_ref.size)
    IN  LinkPrev(R.D, R.prev_ops, Len(D1.ops))

\* the ops convert_set_list visits
RECURSIVE VisitedFrom(_, _, _)
VisitedFrom(D, visited, frontier) ==
    IF frontier = {} THEN visited
    ELSE LET new == UNION {D.ops[o].next : o \in frontier} \ (visited \cup frontier)
         IN  VisitedFrom(D, visited \cup frontier, new)

Visited(D) ==
    VisitedFrom(D, {},
        {D.operations[k].op : k \in {j \in 1..Len(D.operations) :
                                        D.ops[D.operations[j].op].inst # "cpy"}})

\* list(op.next): the elements of the set in some order
Orderings(S) ==
    {l \in [1..Cardinality(S) -> S] : \A j, k \in 1..Cardinality(S) : j # k => l[j] # l[k]}

\* one list for the next set of each of the first n ops
RECURSIVE Listings(_, _)
Listings(D, n) ==
    IF n = 0 THEN {<<>>}
    ELSE {Append(ls, l) : ls \in Listings(D, n - 1), l \in Orderings(D.ops[n].next)}

RemoveFirst(seq, x) ==
    LET at == CHOOSE k \in 1..Len(seq) : seq[k] = x /\ \A j \in 1..(k - 1) : seq[j] # x
    IN  SubSeq(seq, 1, at - 1) \o SubSeq(seq, at + 1, Len(seq))

\* remove_op, for an op whose next list names each op once
RemoveOp(D, op) ==
    [D EXCEPT !.ops =
        [o \in DOMAIN D.ops |->
            LET a == IF o \in D.ops[op].prev
                     THEN [D.ops[o] EXCEPT !.next = RemoveFirst(@, op) \o D.ops[op].next]
                     ELSE D.ops[o]
            IN  IF o \in SeqRange(D.ops[op].next)
                THEN [a EXCEPT !.prev = D.ops[op].prev \cup (@ \ {op})]
                ELSE a]]

SameTb(op1, op2) == op1.tb = op2.tb

SameCount(op1, op2) == Cnt(op1) = Cnt(op2)

SameBufDst(op1, op2) ==
    op1.dst.buffer = op2.dst.buffer /\ op1.dst.index = op2.dst.index

\* the fused op keeps its own destination
FuseMut(D, op, next_op, inst) ==
    RemoveOp([D EXCEPT !.ops[op].inst = inst,
                       !.ops[op].match = @ \o D.ops[next_op].match],
             next_op)

\* op.inst = inst; op.dst = next_op.dst; op.match = op.match + next_op.match;
\* remove_op(next_op)
Fuse(D, op, next_op, inst) ==
    RemoveOp([D EXCEPT !.ops[op].inst = inst,
                       !.ops[op].dst = D.ops[next_op].dst,
                       !.ops[op].match = @ \o D.ops[next_op].match],
             next_op)

\* the body of the loop of _optimize_rcs for one op
RcsStep(D, op) ==
    IF Len(D.ops[op].next) # 1 THEN D
    ELSE LET next_op == D.ops[op].next[1] IN
         IF /\ D.ops[op].inst = "r"
            /\ D.ops[next_op].inst = "s"
            /\ SameTb(D.ops[op], D.ops[next_op])
            /\ SameCount(D.ops[op], D.ops[next_op])
            /\ SameBufDst(D.ops[op], D.ops[next_op])
         THEN Fuse(D, op, next_op, "rcs")
         ELSE D

\* the body of the loop of _optimize_rrcs_rrs for one op
RrcsRrsStep(D, op) ==
    IF Len(D.ops[op].next) # 1 THEN D
    ELSE LET next_op == D.ops[op].next[1]
             D1 == IF /\ Len(D.ops[next_op].next) = 1
                      /\ D.ops[op].inst = "rrc"
                      /\ D.ops[next_op].inst = "s"
                      /\ D.ops[D.ops[next_op].next[1]].inst = "r"
                      /\ SameTb(D.ops[op], D.ops[next_op])
                      /\ SameCount(D.ops[op], D.ops[next_op])
                   THEN Fuse(D, op, next_op, "rrs")
                   ELSE D
         IN  IF /\ D1.ops[op].inst = "rrc"
                /\ D1.ops[next_op].inst = "s"
                /\ SameTb(D1.ops[op], D1.ops[next_op])
                /\ SameCount(D1.ops[op], D1.ops[next_op])
             THEN Fuse(D1, op, next_op, "rrcs")
             ELSE D1

\* while len(frontier) > 0 of _optimize_rcs
RECURSIVE RcsFrontier(_, _)
RcsFrontier(D, frontier) ==
    IF frontier = <<>> THEN D
    ELSE LET D1 == RcsStep(D, Head(frontier))
         IN  RcsFrontier(D1, Tail(frontier) \o D1.ops[Head(frontier)].next)

RECURSIVE RcsFrom(_, _)
RcsFrom(D, k) ==
    IF k > Len(D.operations) THEN D
    ELSE RcsFrom(RcsFrontier(D, <<D.operations[k].op>>), k + 1)

OptimizeRcs(D) == RcsFrom(D, 1)

\* while len(frontier) > 0 of _optimize_rrcs_rrs
RECURSIVE RrcsRrsFrontier(_, _)
RrcsRrsFrontier(D, frontier) ==
    IF frontier = <<>> THEN D
    ELSE LET D1 == RrcsRrsStep(D, Head(frontier))
         IN  RrcsRrsFrontier(D1, Tail(frontier) \o D1.ops[Head(frontier)].next)

RECURSIVE RrcsRrsFrom(_, _)
RrcsRrsFrom(D, k) ==
    IF k > Len(D.operations) THEN D
    ELSE RrcsRrsFrom(RrcsRrsFrontier(D, <<D.operations[k].op>>), k + 1)

OptimizeRrcsRrs(D) == RrcsRrsFrom(D, 1)

-----------------------------------------------------------------------------
(* SpecDag: the lowering starts chunk 0 of the input buffer of every rank,  *)
(* lowers up to MaxTransfers sends and reduces of one chunk between two     *)
(* ranks, turns the next sets into lists and runs the fusion passes.        *)

\* number of sends and reduces lowered into the RankDAG
MaxTransfers == 3

\* the seeded input chunks, in the order their start ops are lowered
StartSlots == [k \in 1..Cardinality(Ranks) |-> <<k - 1, BufInput, 0>>]

Started == Len(operations) = Len(StartSlots)

\* sendOp.match = [recvOp]; recvOp.match = [sendOp]
LinkMatch(D, send_op, recv_op) ==
    [D EXCEPT !.ops[send_op].match = <<recv_op>>,
              !.ops[recv_op].match = <<send_op>>]

StoreDag(D) ==
    /\ dag_ops' = D.ops
    /\ operations' = D.operations
    /\ UNCHANGED <<facadeVars, held, chunkVars, emitVars, repVars, regionVars>>

\* a start chunk op: rank_dag.add_start(rank, buffer, index, ref)
LowerStart ==
    /\ dag_pc = "build"
    /\ ~Started
    /\ LET slot == StartSlots[Len(operations) + 1]
       IN  StoreDag(DagAddStart(Dag, slot[1], slot[2], slot[3],
                                ChunkRef(slot[1], slot[2], slot[3], 1)))
    /\ UNCHANGED <<dag_pc, dag_n>>

\* a send or reduce chunk op between two ranks: add_send on the source rank,
\* add_recv or add_recv_reduce_copy on the destination rank, match linked
Lower(inst, src_rank, dst_rank, index, size, sendtb, recvtb, ch) ==
    /\ dag_pc = "build"
    /\ Started
    /\ dag_n < MaxTransfers
    /\ LET send_ref == ChunkRef(src_rank, BufInput, index, size)
           recv_ref == ChunkRef(dst_rank, BufInput, index, size)
       IN  \E prev_ops \in PrevChoices(Dag, src_rank, BufInput, index, size) :
               LET D1 == DagAddSend(Dag, src_rank, send_ref, recv_ref, sendtb, ch, prev_ops)
                   D2 == DagAddRecv(D1, inst, dst_rank, send_ref, recv_ref, recvtb, ch)
               IN  StoreDag(LinkMatch(D2, Len(D1.ops), Len(D2.ops)))
    /\ dag_n' = dag_n + 1
    /\ UNCHANGED dag_pc

\* send with different ranks
LowerSend(src_rank, dst_rank, sendtb, recvtb) ==
    /\ src_rank # dst_rank
    /\ Lower("r", src_rank, dst_rank, 0, 1, sendtb, recvtb, 0)

\* reduce with different ranks
LowerReduce(src_rank, dst_rank, sendtb, recvtb) ==
    /\ src_rank # dst_rank
    /\ Lower("rrc", src_rank, dst_rank, 0, 1, sendtb, recvtb, 0)

\* rank_dag.convert_set_list()
ConvertSetList ==
    /\ dag_pc = "build"
    /\ Started
    /\ \E lists \in Listings(Dag, Len(dag_ops)) :
           dag_ops' = [o \in DOMAIN dag_ops |->
                          IF o \in Visited(Dag)
                          THEN [dag_ops[o] EXCEPT !.next = lists[o]]
                          ELSE dag_ops[o]]
    /\ dag_pc' = "lists"
    /\ UNCHANGED <<operations, dag_n, facadeVars, held, chunkVars, emitVars,
                   repVars, regionVars>>

\* rank_dag.optimize()
Optimize ==
    /\ dag_pc = "lists"
    /\ StoreDag(OptimizeRcs(OptimizeRrcsRrs(Dag)))
    /\ dag_pc' = "done"
    /\ UNCHANGED dag_n

DagSends ==
    \E src_rank \in Ranks, dst_rank \in Ranks, sendtb \in TbChoices, recvtb \in TbChoices :
        LowerSend(src_rank, dst_rank, sendtb, recvtb)

DagReduces ==
    \E src_rank \in Ranks, dst_rank \in Ranks, sendtb \in TbChoices, recvtb \in TbChoices :
        LowerReduce(src_rank, dst_rank, sendtb, recvtb)

NextDag == LowerStart \/ DagSends \/ DagReduces \/ ConvertSetList \/ Optimize

SpecDag == Init /\ [][NextDag]_vars

\* the ops a walk from the roots of operations along next comes by
NextOps(o) ==
    IF dag_pc = "build" THEN dag_ops[o].next ELSE SeqRange(dag_ops[o].next)

RECURSIVE InDagFrom(_, _)
InDagFrom(seen, frontier) ==
    IF frontier = {} THEN seen
    ELSE InDagFrom(seen \cup frontier,
                   UNION {NextOps(o) : o \in frontier} \ (seen \cup frontier))

InDag == InDagFrom({}, {operations[k].op : k \in 1..Len(operations)})

\* C4: every send-capable op of the DAG towards rank B has exactly one
\* receive-capable op of rank B in its match list, every receive-capable op
\* has exactly one send-capable op of its source rank in its match list, b
\* is in a.match exactly if a is in b.match, and no match list names an op
\* that was removed from the DAG; before and after the fusion passes.
C4_MatchPairsSendAndRecv ==
    \A a \in InDag :
        /\ IsSend(dag_ops[a]) =>
               Cardinality({b \in SeqRange(dag_ops[a].match) :
                               /\ IsRecv(dag_ops[b])
                               /\ dag_ops[b].rank = dag_ops[a].dst.rank}) = 1
        /\ IsRecv(dag_ops[a]) =>
               Cardinality({b \in SeqRange(dag_ops[a].match) :
                               /\ IsSend(dag_ops[b])
                               /\ dag_ops[b].rank = dag_ops[a].src.rank}) = 1
        /\ \A b \in SeqRange(dag_ops[a].match) :
               /\ b \in InDag
               /\ a \in SeqRange(dag_ops[b].match)

-----------------------------------------------------------------------------
(* Ref.split.                                                               *)

\* assert (self.size % num == 0)
SplitFailure(self, num) == IF self.size % num # 0 THEN "split" ELSE "none"

\* every part starts one index after the part before it
SplitIndexMut(self, size, i) == self.index + i

\* index = self.index + i * size
SplitIndex(self, size, i) == self.index + i * size

\* chunks[i] = Ref(self.buffer, index, size, self.prog, self.rank, {}),
\* for i in range(num); chunks[i] is element i + 1 of the sequence
Split(self, num) ==
    LET size == self.size \div num
    IN  [k \in 1..num |->
            Ref(self.buffer, SplitIndex(self, size, k - 1), size, self.rank, {})]

-----------------------------------------------------------------------------
(* SpecSplit: scripts that take a Ref, split it and go on with one of the   *)
(* parts.                                                                   *)

\* number of front-end calls a script of SpecSplit issues
MaxSplitCalls == 4
\* the Refs taken have sizes 1..MaxSplitSize and are split in 1..MaxSplitSize
MaxSplitSize == 4

SplitRunning == failure = "none" /\ ncalls < MaxSplitCalls

\* held = ranks[rank].get_ref(buffer, index, size)
SplitTake(rank, buffer, index, size) ==
    /\ SplitRunning
    /\ held = NoRef
    /\ held' = GetRef(rank, buffer, index, size)
    /\ ncalls' = ncalls + 1
    /\ last' = [kind |-> "get_ref"]
    /\ UNCHANGED <<tbs, tb_mapping, tb_count, slot_ops, buffers, ops, run_opt, failure>>
    /\ UNCHANGED pureVars

\* parts = held.split(num)
SplitHeld(num) ==
    /\ SplitRunning
    /\ held # NoRef
    /\ LET f == SplitFailure(held, num)
       IN  /\ failure' = f
           /\ last' = [kind |-> "split", ref |-> held, num |-> num, failure |-> f,
                       result |-> IF f = "none" THEN Split(held, num) ELSE <<>>]
    /\ ncalls' = ncalls + 1
    /\ UNCHANGED <<tbs, tb_mapping, tb_count, slot_ops, buffers, ops, run_opt, held>>
    /\ UNCHANGED pureVars

\* held = parts[i]
PickPart(i) ==
    /\ SplitRunning
    /\ last.kind = "split"
    /\ i < Len(last.result)
    /\ held' = last.result[i + 1]
    /\ ncalls' = ncalls + 1
    /\ last' = [kind |-> "pick"]
    /\ UNCHANGED <<tbs, tb_mapping, tb_count, slot_ops, buffers, ops, run_opt, failure>>
    /\ UNCHANGED pureVars

SplitTakes ==
    \E rank \in BufRanks, buffer \in BufNames, index \in 0..1,
       size \in 1..MaxSplitSize : SplitTake(rank, buffer, index, size)

SplitSplits == \E num \in 1..MaxSplitSize : SplitHeld(num)

SplitPicks == \E i \in 0..(MaxSplitSize - 1) : PickPart(i)

NextSplit == SplitTakes \/ SplitSplits \/ SplitPicks

SpecSplit == Init /\ [][NextSplit]_vars

\* the indices a Ref addresses
RefRange(ref) == ref.index..(RefEnd(ref) - 1)

SplitIsPartition ==
    last'.kind = "split" =>
        LET r == last'.ref
            n == last'.num
            parts == last'.result
        IN  /\ UNCHANGED <<tbs, tb_mapping, tb_count, slot_ops, buffers, ops, run_opt>>
            /\ IF r.size % n # 0
               THEN failure' = "split"
               ELSE /\ failure' = "none"
                    /\ Len(parts) = n
                    /\ \A k \in 0..(n - 1) :
                          /\ parts[k + 1].rank = r.rank
                          /\ parts[k + 1].buffer = r.buffer
                          /\ parts[k + 1].index = r.index + k * (r.size \div n)
                          /\ parts[k + 1].size = r.size \div n
                    /\ \A j, k \in 1..n :
                          j # k => RefRange(parts[j]) \cap RefRange(parts[k]) = {}
                    /\ UNION {RefRange(parts[k]) : k \in 1..n} = RefRange(r)

-----------------------------------------------------------------------------
(* Duplicate steps of a threadblock, checked under Spec.                    *)

\* every op a threadblock holds is still at its step after the call
HeldOpsAreKept ==
    \A r \in Ranks : \A t \in DOMAIN tbs[r] : \A s \in DOMAIN tbs[r][t].ops :
        /\ t \in DOMAIN tbs'[r]
        /\ s \in DOMAIN tbs'[r][t].ops
        /\ tbs'[r][t].ops[s] = tbs[r][t].ops[s]

\* the rank whose Process was handed the op the call constructed
NewOpRank(o) ==
    IF ops'[o].inst \in {"r", "rrc"} THEN ops'[o].dst.rank ELSE ops'[o].src.rank

\* the op the call constructed went to a step its threadblock already held
AtHeldStep(o) ==
    /\ ops'[o].tb \in DOMAIN tbs[NewOpRank(o)]
    /\ ops'[o].step \in DOMAIN tbs[NewOpRank(o)][ops'[o].tb].ops

DuplicateStepRejected ==
    \A o \in (Len(ops) + 1)..Len(ops') : AtHeldStep(o) => failure' # "none"

\* C12: a call that adds an op (send, recv, copy, recv_reduce_copy, local
\* reduce) to a threadblock at a step the threadblock already holds fails,
\* and no op a threadblock holds is replaced or dropped by a later call.
C12_DuplicateStepFails == [][DuplicateStepRejected /\ HeldOpsAreKept]_vars

-----------------------------------------------------------------------------
(* SpecFuse: the lowering starts every chunk of the input buffers, lowers   *)
(* up to MaxFused transfers of one or two chunks that arrive at rank 1 from *)
(* rank 0 at index 0 or 1, or leave rank 1 from index 0 for rank 2, turns   *)
(* the next sets into lists and runs the fusion passes twice.               *)

\* number of sends and reduces lowered into the RankDAG of SpecFuse
MaxFused == 4

\* the seeded input chunks, in the order their start ops are lowered
FuseSlots ==
    [k \in 1..(Cardinality(Ranks) * Instances) |->
        <<(k - 1) \div Instances, BufInput, (k - 1) % Instances>>]

FuseStarted == Len(operations) = Len(FuseSlots)

\* a start chunk op: rank_dag.add_start(rank, buffer, index, ref)
FuseStart ==
    /\ dag_pc = "build"
    /\ ~FuseStarted
    /\ LET slot == FuseSlots[Len(operations) + 1]
       IN  StoreDag(DagAddStart(Dag, slot[1], slot[2], slot[3],
                                ChunkRef(slot[1], slot[2], slot[3], 1)))
    /\ UNCHANGED <<dag_pc, dag_n>>

\* a send or reduce chunk op from src_rank to the next rank: add_send on the
\* source rank, add_recv or add_recv_reduce_copy on the destination rank,
\* match linked; every op in the threadblock tb
FuseLower(inst, src_rank, index, size, dst_index, tb) ==
    /\ dag_pc = "build"
    /\ FuseStarted
    /\ dag_n < MaxFused
    /\ index + size <= Instances
    /\ dst_index + size <= Instances
    /\ LET send_ref == ChunkRef(src_rank, BufInput, index, size)
           recv_ref == ChunkRef(src_rank + 1, BufInput, dst_index, size)
       IN  \E prev_ops \in PrevChoices(Dag, src_rank, BufInput, index, size) :
               LET D1 == DagAddSend(Dag, src_rank, send_ref, recv_ref, tb, 0, prev_ops)
                   D2 == DagAddRecv(D1, inst, src_rank + 1, send_ref, recv_ref, tb, 0)
               IN  StoreDag(LinkMatch(D2, Len(D1.ops), Len(D2.ops)))
    /\ dag_n' = dag_n + 1
    /\ UNCHANGED dag_pc

\* rank 1 receives chunks from rank 0 at the index they have there
FuseArrive(reduce, index, size) ==
    /\ index \in 0..1
    /\ FuseLower(IF reduce THEN "rrc" ELSE "r", 0, index, size, index, 0)

\* rank 1 sends its first chunks to rank 2
FuseLeave(size, dst_index) ==
    /\ dst_index \in 0..(Instances - 1)
    /\ FuseLower("r", 1, 0, size, dst_index, 0)

\* rank_dag.convert_set_list()
FuseConvert ==
    /\ dag_pc = "build"
    /\ FuseStarted
    /\ \E lists \in Listings(Dag, Len(dag_ops)) :
           dag_ops' = [o \in DOMAIN dag_ops |->
                          IF o \in Visited(Dag)
                          THEN [dag_ops[o] EXCEPT !.next = lists[o]]
                          ELSE dag_ops[o]]
    /\ dag_pc' = "lists"
    /\ UNCHANGED <<operations, dag_n, facadeVars, held, chunkVars, emitVars,
                   repVars, regionVars>>

\* rank_dag.optimize(), a second time
OptimizeAgain ==
    /\ dag_pc = "done"
    /\ StoreDag(OptimizeRcs(OptimizeRrcsRrs(Dag)))
    /\ dag_pc' = "again"
    /\ UNCHANGED dag_n

FuseArrivals ==
    \E reduce \in BOOLEAN, index \in 0..1, size \in Sizes :
        FuseArrive(reduce, index, size)

FuseDepartures ==
    \E size \in Sizes, dst_index \in 0..(Instances - 1) : FuseLeave(size, dst_index)

NextFuse ==
    FuseStart \/ FuseArrivals \/ FuseDepartures \/ FuseConvert \/ Optimize
    \/ OptimizeAgain

SpecFuse == Init /\ [][NextFuse]_vars

\* the ops of a DAG whose next sets are lists: what a walk from the roots of
\* operations along next comes by
RECURSIVE ListedFrom(_, _, _)
ListedFrom(D, seen, frontier) ==
    IF frontier = {} THEN seen
    ELSE ListedFrom(D, seen \cup frontier,
                    UNION {SeqRange(D.ops[o].next) : o \in frontier}
                        \ (seen \cup frontier))

Listed(D) == ListedFrom(D, {}, {D.operations[k].op : k \in 1..Len(D.operations)})

SecondRunChangesNothing ==
    (dag_pc = "done" /\ dag_pc' = "again") =>
        LET D2 == [ops |-> dag_ops', operations |-> operations'] IN
        /\ Listed(D2) = Listed(Dag)
        /\ \A o \in Listed(Dag) :
              /\ dag_ops'[o].inst = dag_ops[o].inst
              /\ dag_ops'[o].src = dag_ops[o].src
              /\ dag_ops'[o].dst = dag_ops[o].dst
              /\ dag_ops'[o].match = dag_ops[o].match
              /\ dag_ops'[o].prev = dag_ops[o].prev
              /\ dag_ops'[o].next = dag_ops[o].next

\* C13: the peephole fusion is idempotent: running optimize (the
\* recv-reduce pass, then the recv-copy-send pass) a second time changes no
\* op's instruction, src, dst, match, prev or next and removes no op.
C13_FusionIsIdempotent == [][SecondRunChangesNothing]_vars

-----------------------------------------------------------------------------
(* RankDAG.replicate and RankDAG.lower_buffers.  The threadblock assignment *)
(* that fills RankDAG.tbs and RankDAG.num_channels, and the instance_size   *)
(* of a scratch buffer, are not part of the sources; they follow sections   *)
(* 4.6, 4.8 and 4.9 of the specification: a threadblock holds at least one  *)
(* op, every op it holds belongs to its rank, and the step of an op is its  *)
(* index in the op list of its threadblock.                                 *)

\* Op(inst, rank, src, dst, depends, step, tb)
IrOp(inst, rank, src, dst, depends, step, tb) ==
    [inst |-> inst, rank |-> rank, src |-> src, dst |-> dst, depends |-> depends,
     step |-> step, tb |-> tb]

\* the RankDAG replicate and lower_buffers work on
RankDag == [tbs |-> dag_tbs, ops |-> dag_ops, buffers |-> dag_buffers,
            num_channels |-> num_channels]

\* self.buffers[rank][buffer]
DagBuffer(P, rank, buffer) ==
    P.buffers[rank][CHOOSE k \in 1..Len(P.buffers[rank]) :
                        P.buffers[rank][k].key = buffer].buf

\* buf.instance_size()
InstanceSize(buf) == buf.instance_size

\* the interleaved policy without the factor instances
GetNewIndexMut(P, C, rank, buffer, index, size, i) ==
    IF IsScratch(buffer) THEN InstanceSize(DagBuffer(P, rank, buffer)) * i + index
    ELSE IF C.interleaved THEN index + i * size
    ELSE DagBuffer(P, rank, buffer).len * i + index

\* get_new_index
GetNewIndex(P, C, rank, buffer, index, size, i) ==
    IF IsScratch(buffer) THEN InstanceSize(DagBuffer(P, rank, buffer)) * i + index
    ELSE IF C.interleaved THEN index * C.instances + i * size
    ELSE DagBuffer(P, rank, buffer).len * i + index

\* get_instance_ref
GetInstanceRef(P, C, ref, i) ==
    ChunkRef(ref.rank, ref.buffer,
             GetNewIndex(P, C, ref.rank, ref.buffer, ref.index, ref.size, i),
             ref.size)

\* every instance keeps the channel of the original
InstanceChannelMut(rank_channels, i, channel) == channel

\* instance_channel = rank_channels * i + tb.channel
InstanceChannel(rank_channels, i, channel) == rank_channels * i + channel

\* itbid = tbid * instances + i
InstanceTbid(tbid, instances, i) == tbid * instances + i

\* every dependency is looked up in instance 0
DepInstanceTbidMut(dep_tbid, instances, i) == dep_tbid * instances

\* dep_itbid = dep_tbid * instances + i
DepInstanceTbid(dep_tbid, instances, i) == dep_tbid * instances + i

\* the body of "for tbid, tb in rank_tbs.items()" of the first loop; the
\* threadblock is stored under the rank of the last op the inner loop saw
ReplicateTb(R, P, C, i, rank, tbid) ==
    LET tb == P.tbs[rank][tbid]
        itbid == InstanceTbid(tbid, C.instances, i)
        base == Len(R.ops)
        iops == [s \in 1..Len(tb.ops) |->
                    LET op == P.ops[tb.ops[s]] IN
                    IrOp(op.inst, op.rank, GetInstanceRef(P, C, op.src, i),
                         GetInstanceRef(P, C, op.dst, i), <<>>, op.step, itbid)]
        itb == Threadblock(InstanceChannel(P.num_channels[rank], i, tb.channel),
                           tb.send, tb.recv, [s \in 1..Len(tb.ops) |-> base + s])
        op_rank == P.ops[tb.ops[Len(tb.ops)]].rank
    IN  [tbs |-> [R.tbs EXCEPT ![op_rank] = (itbid :> itb) @@ @],
         ops |-> R.ops \o iops]

\* the keys of a dict of threadblocks, in ascending order
RECURSIVE Ascending(_)
Ascending(S) ==
    IF S = {} THEN <<>>
    ELSE LET m == CHOOSE x \in S : \A y \in S : x <= y
         IN  <<m>> \o Ascending(S \ {m})

RECURSIVE ReplicateTbs(_, _, _, _, _, _)
ReplicateTbs(R, P, C, i, rank, tbids) ==
    IF tbids = <<>> THEN R
    ELSE ReplicateTbs(ReplicateTb(R, P, C, i, rank, Head(tbids)), P, C, i, rank,
                      Tail(tbids))

\* for rank, rank_tbs in enumerate(self.tbs)
RECURSIVE ReplicateRanks(_, _, _, _, _)
ReplicateRanks(R, P, C, i, rank) ==
    IF rank \notin DOMAIN P.tbs THEN R
    ELSE ReplicateRanks(
             ReplicateTbs(R, P, C, i, rank, Ascending(DOMAIN P.tbs[rank])),
             P, C, i, rank + 1)

\* for i in range(instances)
RECURSIVE ReplicateInstances(_, _, _, _)
ReplicateInstances(R, P, C, i) ==
    IF i >= C.instances THEN R
    ELSE ReplicateInstances(ReplicateRanks(R, P, C, i, 0), P, C, i + 1)

\* the places (rank, tbid, i, s) of the second loop
Places(P, C) ==
    {pl \in (DOMAIN P.tbs) \X (UNION {DOMAIN P.tbs[r] : r \in DOMAIN P.tbs})
              \X (0..(C.instances - 1)) \X (1..Len(P.ops)) :
        /\ pl[2] \in DOMAIN P.tbs[pl[1]]
        /\ pl[4] <= Len(P.tbs[pl[1]][pl[2]].ops)}

\* self.instanced_tbs[rank][itbid] is there for every place, and so is
\* self.instanced_tbs[op.rank][dep_itbid].ops[dep_step] for every dependency
LookupsSucceed(R, P, C) ==
    \A pl \in Places(P, C) :
        LET op == P.ops[P.tbs[pl[1]][pl[2]].ops[pl[4]]]
            itbid == InstanceTbid(pl[2], C.instances, pl[3])
        IN  /\ itbid \in DOMAIN R.tbs[pl[1]]
            /\ pl[4] <= Len(R.tbs[pl[1]][itbid].ops)
            /\ \A s \in 1..Len(op.depends) :
                  LET dep == P.ops[op.depends[s]]
                      dep_itbid == DepInstanceTbid(dep.tb, C.instances, pl[3])
                  IN  /\ dep_itbid \in DOMAIN R.tbs[op.rank]
                      /\ dep.step + 1 \in 1..Len(R.tbs[op.rank][dep_itbid].ops)

\* "Redo dependency analysis"
RedoDependencies(R, P, C) ==
    LET places == Places(P, C) IN
    [R EXCEPT !.ops =
        [x \in DOMAIN R.ops |->
            LET at == {pl \in places :
                          R.tbs[pl[1]][InstanceTbid(pl[2], C.instances, pl[3])]
                              .ops[pl[4]] = x}
            IN  IF at = {} THEN R.ops[x]
                ELSE LET pl == CHOOSE pl \in at : TRUE
                         op == P.ops[P.tbs[pl[1]][pl[2]].ops[pl[4]]]
                     IN  [R.ops[x] EXCEPT !.depends =
                            [s \in 1..Len(op.depends) |->
                                LET dep == P.ops[op.depends[s]] IN
                                R.tbs[op.rank]
                                     [DepInstanceTbid(dep.tb, C.instances, pl[3])]
                                     .ops[dep.step + 1]]]]]

\* the two loops of replicate, for instances > 1
Replicated(P, C) ==
    ReplicateInstances([tbs |-> [r \in DOMAIN P.tbs |-> EmptyFn], ops |-> <<>>],
                       P, C, 0)

\* rank_dag.replicate(instances, interleaved)
Replicate(instances, interleaved) ==
    /\ dag_pc = "assigned"
    /\ LET C == [kind |-> "replicate", instances |-> instances,
                 interleaved |-> interleaved]
           R == Replicated(RankDag, C)
       IN  /\ rep_call' = C
           /\ IF instances = 1
              THEN /\ instanced_tbs' = dag_tbs
                   /\ instanced_ops' = dag_ops
                   /\ dag_pc' = "replicated"
              ELSE IF LookupsSucceed(R, RankDag, C)
              THEN /\ instanced_tbs' = R.tbs
                   /\ instanced_ops' = RedoDependencies(R, RankDag, C).ops
                   /\ dag_pc' = "replicated"
              ELSE /\ instanced_tbs' = R.tbs
                   /\ instanced_ops' = R.ops
                   /\ dag_pc' = "raised"
    /\ UNCHANGED <<dag_ops, operations, dag_n, dag_tbs, num_channels, dag_buffers>>
    /\ UNCHANGED <<facadeVars, held, chunkVars, emitVars, regionVars>>

-----------------------------------------------------------------------------
(* Replication of assigned threadblocks.  Rank 0 holds three threadblocks   *)
(* and rank 1 two; the dependency lists and the channel of the second link  *)
(* vary, the dependencies of an op are ops of other threadblocks of its     *)
(* rank, at most one for each.                                              *)

MaxInstances == 3

\* the scratch buffer of the replicated program
Scr == "scr"

\* the dependency lists that name at most one op of a threadblock
TbDepends(candidates, together) ==
    {l \in DependsLists(candidates) :
        \A j, k \in 1..Len(l) : j # k => {l[j], l[k]} # together}

\* the buffers of one rank, in insertion order
RepBuffers ==
    << [key |-> BufInput, buf |-> [kind |-> "list", len |-> 2]],
       [key |-> BufOutput, buf |-> [kind |-> "list", len |-> 2]],
       [key |-> Scr, buf |-> [kind |-> "slice", offset |-> -1, instance_size |-> 2]] >>

InitRep ==
    /\ InitProgram
    /\ NoChunks
    /\ NoEmit
    /\ NoRegion
    /\ operations = <<>>
    /\ dag_n = 0
    /\ dag_pc = "assigned"
    /\ dag_buffers = [r \in {0, 1} |-> RepBuffers]
    /\ \E ch \in {0, 1} :
          /\ dag_tbs = [r \in {0, 1} |->
                IF r = 0
                THEN (0 :> Threadblock(0, 1, -1, <<1, 2>>))
                     @@ (1 :> Threadblock(ch, -1, 1, <<3>>))
                     @@ (2 :> Threadblock(0, -1, -1, <<4>>))
                ELSE (0 :> Threadblock(0, -1, 0, <<5, 6>>))
                     @@ (1 :> Threadblock(ch, 0, -1, <<7>>))]
          /\ num_channels = [r \in {0, 1} |-> ch + 1]
    /\ \E d1 \in TbDepends({3, 4}, {}), d3 \in TbDepends({1, 2, 4}, {1, 2}),
          d4 \in TbDepends({2, 3}, {}), d5 \in TbDepends({7}, {}),
          d7 \in TbDepends({5, 6}, {5, 6}) :
          dag_ops =
            << IrOp("s", 0, ChunkRef(0, BufInput, 0, 1), ChunkRef(1, BufInput, 0, 1),
                    d1, 0, 0),
               IrOp("s", 0, ChunkRef(0, Scr, 0, 2), ChunkRef(1, Scr, 0, 2), <<>>, 1, 0),
               IrOp("r", 0, ChunkRef(1, BufInput, 1, 1), ChunkRef(0, BufOutput, 1, 1),
                    d3, 0, 1),
               IrOp("cpy", 0, ChunkRef(0, BufInput, 1, 1), ChunkRef(0, BufOutput, 0, 1),
                    d4, 0, 2),
               IrOp("r", 1, ChunkRef(0, BufInput, 0, 1), ChunkRef(1, BufInput, 0, 1),
                    d5, 0, 0),
               IrOp("r", 1, ChunkRef(0, Scr, 0, 2), ChunkRef(1, Scr, 0, 2), <<>>, 1, 0),
               IrOp("s", 1, ChunkRef(1, BufInput, 1, 1), ChunkRef(0, BufOutput, 1, 1),
                    d7, 0, 1) >>
    /\ instanced_tbs = <<>>
    /\ instanced_ops = <<>>
    /\ rep_call = NoCall

Replicates ==
    \E instances \in 1..MaxInstances, interleaved \in BOOLEAN :
        Replicate(instances, interleaved)

NextRep == Replicates

SpecRep == InitRep /\ [][NextRep]_vars

\* replicate has run with more than one instance
ReplicatedMany ==
    /\ dag_pc \in {"replicated", "raised"}
    /\ rep_call.instances > 1

\* the copy of instance i of the op at place s of threadblock tbid of the rank
CopyOf(rank, tbid, i, s) ==
    instanced_ops[instanced_tbs[rank][tbid * rep_call.instances + i].ops[s]]

\* C14: after replication with N > 1 instances, the copy of instance i of an
\* op has as many dependencies as the op, each of them is the op at the step
\* of the original dependency in threadblock dep_tbid*N + i of the same rank,
\* and none of them belongs to another instance.
C14_DependenciesStayInInstance ==
    ReplicatedMany =>
        /\ dag_pc = "replicated"
        /\ \A rank \in DOMAIN dag_tbs : \A tbid \in DOMAIN dag_tbs[rank] :
           \A i \in 0..(rep_call.instances - 1) :
           \A s \in 1..Len(dag_tbs[rank][tbid].ops) :
              LET N == rep_call.instances
                  op == dag_ops[dag_tbs[rank][tbid].ops[s]]
                  iop == CopyOf(rank, tbid, i, s)
              IN  /\ Len(iop.depends) = Len(op.depends)
                  /\ \A k \in 1..Len(op.depends) :
                        LET dep == dag_ops[op.depends[k]]
                            idep == instanced_ops[iop.depends[k]]
                        IN  /\ iop.depends[k] =
                                 instanced_tbs[rank][dep.tb * N + i].ops[dep.step + 1]
                            /\ idep.tb = dep.tb * N + i
                            /\ idep.step = dep.step
                            /\ idep.inst = dep.inst
                            /\ idep.rank = rank
                            /\ idep.tb % N = iop.tb % N

C14_Witness ==
    /\ dag_pc = "replicated"
    /\ rep_call.instances = 3
    /\ Len(CopyOf(0, 1, 2, 1).depends) = 2
    /\ Len(CopyOf(1, 1, 1, 1).depends) = 1

-----------------------------------------------------------------------------
(* RankDAG.lower_buffers.  A rank holds its input and output buffer and the *)
(* scratch buffers created after them, each with the size of one instance.  *)

MaxScratchSize == 5

\* the names of the scratch buffers, in the order of their creation
ScratchNames == <<"sa", "sb", "sc">>

\* the buffers of a rank whose scratch buffers have these instance sizes
LayoutBuffers(sizes) ==
    << [key |-> BufInput, buf |-> [kind |-> "list", len |-> 2]],
       [key |-> BufOutput, buf |-> [kind |-> "list", len |-> 2]] >>
    \o [k \in 1..Len(sizes) |->
           [key |-> ScratchNames[k],
            buf |-> [kind |-> "slice", offset |-> -1, instance_size |-> sizes[k]]]]

\* the running offset grows by the size of one instance only
NextOffsetMut(offset, buf, instances) == offset + InstanceSize(buf)

\* offset += buf.instance_size() * instances
NextOffset(offset, buf, instances) == offset + InstanceSize(buf) * instances

\* for key, buf in rank_buffers.items(), from entry k on
RECURSIVE LowerRankBuffers(_, _, _, _)
LowerRankBuffers(rank_buffers, instances, offset, k) ==
    IF k > Len(rank_buffers) THEN rank_buffers
    ELSE IF rank_buffers[k].key # BufInput /\ rank_buffers[k].key # BufOutput
    THEN LowerRankBuffers([rank_buffers EXCEPT ![k].buf.offset = offset], instances,
                          NextOffset(offset, rank_buffers[k].buf, instances), k + 1)
    ELSE LowerRankBuffers(rank_buffers, instances, offset, k + 1)

\* rank_dag.lower_buffers(instances)
LowerBuffers(instances) ==
    /\ dag_pc = "layout"
    /\ dag_buffers' = [r \in DOMAIN dag_buffers |->
                          LowerRankBuffers(dag_buffers[r], instances, 0, 1)]
    /\ rep_call' = [kind |-> "lower_buffers", instances |-> instances]
    /\ dag_pc' = "offsets"
    /\ UNCHANGED <<dag_ops, operations, dag_n, dag_tbs, num_channels, instanced_tbs,
                   instanced_ops>>
    /\ UNCHANGED <<facadeVars, held, chunkVars, emitVars, regionVars>>

InitLayout ==
    /\ InitProgram
    /\ NoChunks
    /\ NoEmit
    /\ NoRegion
    /\ dag_ops = <<>>
    /\ operations = <<>>
    /\ dag_n = 0
    /\ dag_pc = "layout"
    /\ dag_tbs = <<>>
    /\ num_channels = <<>>
    /\ instanced_tbs = <<>>
    /\ instanced_ops = <<>>
    /\ rep_call = NoCall
    /\ \E s0 \in UNION {[1..n -> 0..MaxScratchSize] : n \in 0..3},
          s1 \in UNION {[1..n -> 0..MaxScratchSize] : n \in 0..1} :
          dag_buffers = [r \in {0, 1} |->
                            LayoutBuffers(IF r = 0 THEN s0 ELSE s1)]

LowersBuffers == \E instances \in 1..MaxInstances : LowerBuffers(instances)

NextLayout == LowersBuffers

SpecLayout == InitLayout /\ [][NextLayout]_vars

\* the scratch entries of a rank
ScratchEntries(rank) ==
    {k \in 1..Len(dag_buffers[rank]) : IsScratch(dag_buffers[rank][k].key)}

RECURSIVE SizesBefore(_, _)
SizesBefore(rank, k) ==
    IF k <= 1 THEN 0
    ELSE SizesBefore(rank, k - 1)
         + (IF k - 1 \in ScratchEntries(rank)
            THEN dag_buffers[rank][k - 1].buf.instance_size ELSE 0)

\* the region [offset, offset + instances*size) of a scratch entry
Region(rank, k) ==
    LET buf == dag_buffers[rank][k].buf
    IN  {x \in 0..(MaxScratchSize + 1) * (MaxInstances + 1) * 3 :
            /\ buf.offset <= x
            /\ x < buf.offset + rep_call.instances * buf.instance_size}

\* C16: lower_buffers gives the scratch buffers of a rank, in insertion
\* order, the offset instances * (sum of the instance sizes of the scratch
\* buffers before); the regions are pairwise disjoint and cover the indices
\* from 0 up; sizes 3 and 5 with 2 instances give offsets 0 and 6 and a
\* region of 16; input and output buffers get no offset.
C16_ScratchOffsets ==
    dag_pc = "offsets" =>
        \A rank \in DOMAIN dag_buffers :
            LET N == rep_call.instances
                total == N * SizesBefore(rank, Len(dag_buffers[rank]) + 1)
            IN  /\ \A k \in ScratchEntries(rank) :
                      dag_buffers[rank][k].buf.offset = N * SizesBefore(rank, k)
                /\ \A j, k \in ScratchEntries(rank) :
                      j # k => Region(rank, j) \cap Region(rank, k) = {}
                /\ UNION {Region(rank, k) : k \in ScratchEntries(rank)} =
                       0..(total - 1)
                /\ \A k \in 1..Len(dag_buffers[rank]) :
                      k \notin ScratchEntries(rank) =>
                          dag_buffers[rank][k].buf = [kind |-> "list", len |-> 2]
                /\ (/\ N = 2
                    /\ Len(dag_buffers[rank]) = 4
                    /\ dag_buffers[rank][3].buf.instance_size = 3
                    /\ dag_buffers[rank][4].buf.instance_size = 5)
                   => /\ dag_buffers[rank][3].buf.offset = 0
                      /\ dag_buffers[rank][4].buf.offset = 6
                      /\ total = 16

C16_Witness ==
    /\ dag_pc = "offsets"
    /\ rep_call.instances = 2
    /\ Len(dag_buffers[0]) = 4
    /\ dag_buffers[0][3].buf.instance_size = 3
    /\ dag_buffers[0][4].buf.instance_size = 5
    /\ dag_buffers[0][4].buf.offset = 6
    /\ Len(dag_buffers[1]) = 3

-----------------------------------------------------------------------------
(* SCCLProgram.__init__, __enter__, __exit__ and the entry points Rank, XML *)
(* and Check.  A program object is named by its place in programs;          *)
(* current_program = 0 is _current_program == None.  What lower and         *)
(* ir_to_xml do with a current program is the subject of SpecEmit; here XML *)
(* records whether _curr() resolved.                                        *)

MaxPrograms == 2

\* the collectives __init__ and check compare self.collective with
KnownCollectives == {"alltoall", "allgather", "allreduce"}

\* the collective names a script passes
CollectiveNames == KnownCollectives \cup {"broadcast"}

\* topo.num_nodes() of the topologies the programs are built for
RegionRanks == {0, 1}

\* self.ranks after __init__: the init_buffers of the collective append one
\* Process for each node; no branch is taken for another name
RanksAfterInit(collective) ==
    IF collective \in KnownCollectives THEN Cardinality(RegionRanks) ELSE 0

\* SCCLProgram(name, topo, collective, instances)
Construct(collective) ==
    /\ Len(programs) < MaxPrograms
    /\ programs' = Append(programs, [collective |-> collective,
                                     ranks |-> RanksAfterInit(collective)])
    /\ last' = [kind |-> "construct", collective |-> collective, failure |-> "none"]
    /\ UNCHANGED current_program
    /\ UNCHANGED <<tbs, tb_mapping, tb_count, slot_ops, buffers, ops, run_opt, failure,
                   ncalls, held>>
    /\ UNCHANGED <<chunkVars, emitVars, dagVars, repVars>>

\* a program is entered whatever _current_program is
EnterFailureMut(current) == "none"

\* if _current_program != None: raise RuntimeError
EnterFailure(current) == IF current # 0 THEN "RuntimeError" ELSE "none"

\* if _current_program != self: raise RuntimeError
ExitFailure(current, self) == IF current # self THEN "RuntimeError" ELSE "none"

\* _curr()
CurrFailure(current) == IF current = 0 THEN "RuntimeError" ELSE "none"

\* a call of the region leaves everything but the binding and the call record
RegionFrame ==
    /\ UNCHANGED programs
    /\ UNCHANGED <<tbs, tb_mapping, tb_count, slot_ops, buffers, ops, run_opt, failure,
                   ncalls, held>>
    /\ UNCHANGED <<chunkVars, emitVars, dagVars, repVars>>

\* SCCLProgram.__enter__
Enter(self) ==
    /\ self \in 1..Len(programs)
    /\ last' = [kind |-> "enter", self |-> self,
                failure |-> EnterFailure(current_program)]
    /\ current_program' =
           IF EnterFailure(current_program) = "none" THEN self ELSE current_program
    /\ RegionFrame

\* SCCLProgram.__exit__
Exit(self) ==
    /\ self \in 1..Len(programs)
    /\ last' = [kind |-> "exit", self |-> self,
                failure |-> ExitFailure(current_program, self)]
    /\ current_program' =
           IF ExitFailure(current_program, self) = "none" THEN 0 ELSE current_program
    /\ RegionFrame

\* Rank(index): _curr().rank(index), self.ranks[rank]
CallRank(index) ==
    /\ last' = [kind |-> "Rank", index |-> index,
                failure |-> IF CurrFailure(current_program) # "none"
                            THEN CurrFailure(current_program)
                            ELSE IF index >= programs[current_program].ranks
                            THEN "IndexError" ELSE "none"]
    /\ UNCHANGED current_program
    /\ RegionFrame

\* XML(): print(ir_to_xml(_curr().lower()))
CallXML ==
    /\ last' = [kind |-> "XML", failure |-> CurrFailure(current_program)]
    /\ UNCHANGED current_program
    /\ RegionFrame

\* Check(): _curr().check(); check returns False for a name it does not know
CallCheck ==
    /\ last' = [kind |-> "Check", failure |-> CurrFailure(current_program),
                result |-> IF CurrFailure(current_program) # "none" THEN "none"
                           ELSE IF programs[current_program].collective
                                       \in KnownCollectives
                           THEN "expected_output" ELSE "False"]
    /\ UNCHANGED current_program
    /\ RegionFrame

InitRegion ==
    /\ InitProgram
    /\ NoChunks
    /\ NoEmit
    /\ InitDag
    /\ NoReplica
    /\ NoRegion

Constructs == \E collective \in CollectiveNames : Construct(collective)

Enters == \E self \in 1..MaxPrograms : Enter(self)

Exits == \E self \in 1..MaxPrograms : Exit(self)

CallsRank == \E index \in RegionRanks : CallRank(index)

NextRegion == Constructs \/ Enters \/ Exits \/ CallsRank \/ CallXML \/ CallCheck

SpecRegion == InitRegion /\ [][NextRegion]_vars

\* what a call of the region does to the binding
RegionContract ==
    /\ (last'.kind = "enter" /\ current_program # 0) =>
           /\ last'.failure # "none"
           /\ current_program' = current_program
    /\ (last'.kind = "enter" /\ current_program = 0) =>
           /\ last'.failure = "none"
           /\ current_program' = last'.self
    /\ (last'.kind = "exit" /\ current_program = last'.self) =>
           /\ last'.failure = "none"
           /\ current_program' = 0
    /\ (last'.kind = "exit" /\ current_program # last'.self) =>
           /\ last'.failure # "none"
           /\ current_program' = current_program
    /\ (last'.kind \in {"Rank", "XML", "Check"}) =>
           /\ current_program' = current_program
           /\ current_program = 0 => last'.failure # "none"
    /\ last'.kind = "construct" => current_program' = current_program
    /\ current_program' \in 0..Len(programs')

\* C17: at most one program is current: entering while a program is current
\* fails and keeps the binding, exit by the current program clears it, exit
\* by another program fails and keeps it, and Rank, XML and Check fail while
\* no program is current.
C17_OneCurrentProgram == [][RegionContract]_vars

C17_Witness ==
    /\ Len(programs) = 2
    /\ current_program = 1
    /\ last.kind = "enter"
    /\ last.self = 2
    /\ last.failure = "RuntimeError"

\* C19: constructing a program for a collective that is none of alltoall,
\* allgather and allreduce fails and yields no program object.
C19_UnknownCollectiveFails ==
    [][(last'.kind = "construct" /\ last'.collective \notin KnownCollectives) =>
           (last'.failure # "none" /\ programs' = programs)]_vars

-----------------------------------------------------------------------------
(* The AllGather of two ranks: each rank sends chunk 0 of its input buffer  *)
(* to output index r of the other rank and of itself, every argument of     *)
(* send but dst, buffer and index left at its default; the four calls come  *)
(* in any order and Check() may be called after any of them.                *)

GatherRanks == {0, 1}

\* allgather_init_buffers
AllgatherInitBuffers ==
    [r \in GatherRanks |->
        (BufInput :> (0 :> Chunk(r, 0, -1, r))) @@
        (BufOutput :> [i \in 0..(Cardinality(GatherRanks) - 1) |-> None])]

\* allgather_expected_output
AllgatherExpectedOutput(S) ==
    \A r \in GatherRanks : \A i \in 0..(Cardinality(GatherRanks) - 1) :
        LET chunk == S.buffers[r][BufOutput][i]
        IN  ~(chunk = None \/ chunk.origin_rank # i \/ chunk.origin_index # 0)

InitGather ==
    /\ tbs = [r \in GatherRanks |-> EmptyFn]
    /\ tb_mapping = [r \in GatherRanks |-> EmptyFn]
    /\ tb_count = [r \in GatherRanks |-> 0]
    /\ slot_ops = [r \in GatherRanks |-> EmptyFn]
    /\ buffers = AllgatherInitBuffers
    /\ ops = <<>>
    /\ run_opt = TRUE
    /\ failure = "none"
    /\ ncalls = 0
    /\ last = NoCall
    /\ held = NoRef
    /\ NoChunks
    /\ NoEmit
    /\ InitDag
    /\ NoReplica
    /\ NoRegion

\* the script has sent the chunk of rank r to dst
Gathered(r, dst) ==
    \E o \in DOMAIN ops :
        /\ ops[o].inst \in {"s", "cpy"}
        /\ ops[o].src.rank = r
        /\ ops[o].dst.rank = dst

\* Rank(r).input(0).send(dst, Buffer.output, r)
GatherSend(r, dst) ==
    /\ failure = "none"
    /\ ~Gathered(r, dst)
    /\ LET ref == GetRef(r, BufInput, 0, 1)
           S == RefSend(Cur, ref, dst, BufOutput, r, -1, -1, -1, 0)
       IN  Issue("send", S, ref, dst, BufOutput, r, -1, -1, -1, 0)

\* Check() on the allgather program
GatherCheck ==
    /\ failure = "none"
    /\ last' = [kind |-> "Check", failure |-> "none",
                result |-> AllgatherExpectedOutput(Cur)]
    /\ UNCHANGED <<tbs, tb_mapping, tb_count, slot_ops, buffers, ops, run_opt, failure,
                   ncalls, held>>
    /\ UNCHANGED pureVars

GatherSends == \E r \in GatherRanks, dst \in GatherRanks : GatherSend(r, dst)

NextGather == GatherSends \/ GatherCheck

SpecGather == InitGather /\ [][NextGather]_vars

\* the four sends of the script are issued
GatherDone == \A r \in GatherRanks, dst \in GatherRanks : Gathered(r, dst)

\* no op of a rank receives into a slot that a send of the rank reads: neither
\* rcs nor rrcs/rrs has a pair to fuse
NoFusionApplies ==
    \A a, b \in DOMAIN ops :
        ~(/\ ops[a].inst = "r"
          /\ ops[b].inst = "s"
          /\ ops[a].dst.rank = ops[b].src.rank
          /\ ops[a].dst.buffer = ops[b].src.buffer
          /\ ops[a].dst.index = ops[b].src.index)

\* Check() returns true
GatherChecks == (GatherDone /\ last.kind = "Check") => last.result

\* C18: after the four sends of the 2-rank AllGather, with automatic
\* threadblock assignment, each rank has exactly two threadblocks (one with
\* the local copy, one with the send or recv), no fusion applies and check()
\* returns true.
C18_GatherHasTwoThreadblocks ==
    GatherDone =>
        /\ failure = "none"
        /\ \A r \in GatherRanks :
              /\ Cardinality(DOMAIN tbs[r]) = 2
              /\ \E t \in DOMAIN tbs[r] : \E st \in DOMAIN tbs[r][t].ops :
                    ops[tbs[r][t].ops[st]].inst = "cpy"
        /\ NoFusionApplies
        /\ GatherChecks

-----------------------------------------------------------------------------
(* Slot-level ordering of the schedule, checked under SpecBuf.              *)

\* the slots of a Ref, as (buffer, index) pairs
RefSlots(ref) == {<<ref.buffer, ref.index + i>> : i \in 0..(ref.size - 1)}

\* the slots of its own rank an op reads: a send and a copy read their
\* source, a recv_reduce_copy reads the slot it reduces into
SlotsRead(o) ==
    CASE ops[o].inst \in {"s", "cpy"} -> RefSlots(ops[o].src)
      [] ops[o].inst = "rrc" -> RefSlots(ops[o].dst)
      [] OTHER -> {}

\* the slots of its own rank an op writes
SlotsWritten(o) ==
    IF ops[o].inst \in {"r", "rrc", "cpy"} THEN RefSlots(ops[o].dst) ELSE {}

\* two ops of one rank touch a common slot and at least one writes it
SlotConflict(a, b) ==
    /\ OpRank(a) = OpRank(b)
    /\ \/ SlotsWritten(a) \cap (SlotsRead(b) \cup SlotsWritten(b)) # {}
       \/ SlotsRead(a) \cap SlotsWritten(b) # {}

\* b is later than a in the threadblock of a, or names a in its depends
OrderedBefore(a, b) ==
    /\ OpRank(a) = OpRank(b)
    /\ \/ ops[a].tb = ops[b].tb /\ ops[a].step < ops[b].step
       \/ \E k \in 1..Len(ops[b].depends) : ops[b].depends[k] = a

RECURSIVE OrderedFrom(_, _)
OrderedFrom(seen, frontier) ==
    IF frontier = {} THEN seen
    ELSE LET new == {b \in HeldOps : \E a \in frontier : OrderedBefore(a, b)} \ seen
         IN OrderedFrom(seen \cup new, new)

\* C20: of two ops of one rank that touch the same slot, one of them writing
\* it, the op issued later is ordered after the op issued earlier by
\* threadblock step order and depends edges.
C20_NoSlotRaces ==
    failure = "none" =>
        \A a, b \in HeldOps :
            (a < b /\ SlotConflict(a, b)) => b \in OrderedFrom({}, {a})

-----------------------------------------------------------------------------
(* The dependencies of an op: Process._get_dependences on the slots a       *)
(* front-end call reads, and RankDAG.infer_dependencies on the prev set of  *)
(* an op of an assigned DAG.  SpecDeps runs either a script of front-end    *)
(* calls or infer_dependencies on a DAG whose ops have threadblocks and     *)
(* steps; the assignment of those is not part of the sources and follows    *)
(* section 4.6 of the specification: the step of an op is its place among   *)
(* the ops of its threadblock, in an order that respects prev.              *)

MaxDepCalls == 3

\* the later op replaces the entry of its threadblock whatever its step
InferMergeMut(D, depends, dep_op) ==
    LET hit == {k \in 1..Len(depends) : D.ops[depends[k]].tb = D.ops[dep_op].tb} IN
    IF hit = {} THEN Append(depends, dep_op)
    ELSE [depends EXCEPT ![CHOOSE k \in hit : TRUE] = dep_op]

\* if tb not in depends or dep_op.step > depends[tb].step: depends[tb] = dep_op
InferMerge(D, depends, dep_op) ==
    LET hit == {k \in 1..Len(depends) : D.ops[depends[k]].tb = D.ops[dep_op].tb} IN
    IF hit = {} THEN Append(depends, dep_op)
    ELSE LET k == CHOOSE k \in hit : TRUE IN
         IF D.ops[dep_op].step > D.ops[depends[k]].step
         THEN [depends EXCEPT ![k] = dep_op]
         ELSE depends

\* for dep_op in list(op.prev), in the order the list came out
RECURSIVE InferFrom(_, _, _)
InferFrom(D, prev_list, depends) ==
    IF prev_list = <<>> THEN depends
    ELSE InferFrom(D, Tail(prev_list),
                   IF D.ops[Head(prev_list)].inst # "st"
                   THEN InferMerge(D, depends, Head(prev_list))
                   ELSE depends)

\* list(op.prev) when the ops of a set come out in the order of the ranking
RECURSIVE ListBy(_, _)
ListBy(S, ranking) ==
    IF S = {} THEN <<>>
    ELSE LET m == CHOOSE x \in S : \A y \in S : ranking[x] <= ranking[y]
         IN  <<m>> \o ListBy(S \ {m}, ranking)

\* the assigned DAG infer_dependencies is run on: op 1 is the start op of the
\* slot, op k has its predecessors among the ops before it
InferOps(prevs, tbof) ==
    [k \in 1..(Len(prevs) + 1) |->
        LET prev == IF k = 1 THEN {} ELSE prevs[k - 1]
            tb == IF k = 1 THEN -1 ELSE tbof[k - 1]
            step == IF k = 1 THEN -1
                    ELSE Cardinality({j \in 1..(k - 2) : tbof[j] = tb})
            next == {j \in 2..(Len(prevs) + 1) : k \in prevs[j - 1]}
        IN  [DagOp(IF k = 1 THEN "st" ELSE "r", 0, ChunkRef(1, BufInput, 0, 1),
                   ChunkRef(0, BufInput, 0, 1), tb, 0)
                EXCEPT !.prev = prev, !.next = Ascending(next)]
            @@ [step |-> step, depends |-> <<>>]]

InitDeps ==
    /\ InitProgram
    /\ NoChunks
    /\ NoEmit
    /\ NoReplica
    /\ NoRegion
    /\ dag_n = 0
    /\ \/ InitDag
       \/ /\ dag_pc = "assigned"
          /\ operations = << [slot |-> <<0, BufInput, 0>>, op |-> 1] >>
          /\ \E p3 \in (SUBSET {1, 2}) \ {{}}, p4 \in (SUBSET {1, 2, 3}) \ {{}},
                p5 \in (SUBSET {1, 2, 3, 4}) \ {{}}, tb3 \in {0, 1}, tb4 \in {0, 1} :
                dag_ops = InferOps(<<{1}, p3, p4, p5>>, <<0, tb3, tb4, 1>>)

\* rank_dag.infer_dependencies(); the ops of a prev set come out in the order
\* of a ranking of the ops
InferDependencies(r2, r3, r4) ==
    /\ dag_pc = "assigned"
    /\ Cardinality({r2, r3, r4}) = 3
    /\ LET ranking == <<0, r2, r3, r4, 10 - r2 - r3 - r4>> IN
       dag_ops' = [o \in DOMAIN dag_ops |->
                      IF o \in InDag
                      THEN [dag_ops[o] EXCEPT !.depends =
                               InferFrom(Dag, ListBy(dag_ops[o].prev, ranking), <<>>)]
                      ELSE dag_ops[o]]
    /\ dag_pc' = "inferred"
    /\ UNCHANGED <<operations, dag_n, facadeVars, held, chunkVars, emitVars,
                   repVars, regionVars>>

\* the script of front-end calls: sends and local copies of one or two chunks
\* from index 0 of the input buffer into its first two slots, with steps that
\* the script counts up or down
DepCall(r, size, dst, index, step) ==
    /\ dag_pc = "build"
    /\ failure = "none"
    /\ ncalls < MaxDepCalls
    /\ index + size <= 2
    /\ LET ref == GetRef(r, BufInput, 0, size)
           S == RefSend(Cur, ref, dst, BufInput, index, step, -1, -1, 0)
       IN  Issue("send", S, ref, dst, BufInput, index, step, -1, -1, 0)

DepCalls ==
    \E r \in BufRanks, size \in Sizes, dst \in BufRanks, index \in {0, 1},
       step \in {ncalls, MaxDepCalls - 1 - ncalls} :
        DepCall(r, size, dst, index, step)

Infers == \E r2 \in 1..4, r3 \in 1..4, r4 \in 1..4 : InferDependencies(r2, r3, r4)

NextDeps == DepCalls \/ Infers

SpecDeps == InitDeps /\ [][NextDeps]_vars

\* the list names at most one op of a threadblock, and for every threadblock
\* of a predecessor it names a predecessor of that threadblock with the
\* highest step
KeepsHighest(depends, preds, tbof, stepof) ==
    /\ \A j, k \in 1..Len(depends) : j # k => tbof[depends[j]] # tbof[depends[k]]
    /\ \A p \in preds :
          \E k \in 1..Len(depends) :
              /\ depends[k] \in preds
              /\ tbof[depends[k]] = tbof[p]
              /\ \A q \in preds : tbof[q] = tbof[p] => stepof[q] <= stepof[depends[k]]

\* the op recorded last, before op o was built, on a slot of its rank
LastBefore(o, key) ==
    LET l == slot_ops[OpRank(o)][key]
        before == {k \in 1..Len(l) : l[k] < o}
    IN  IF before = {} THEN {}
        ELSE {l[CHOOSE k \in before : \A j \in before : j <= k]}

\* the predecessors of an op of the front end: the ops recorded last on the
\* slots its source names on its rank
SlotPreds(o) ==
    UNION {LastBefore(o, key) :
              key \in RefSlots(ops[o].src) \cap DOMAIN slot_ops[OpRank(o)]}

\* C21: the depends list of an op holds at most one op per threadblock, and
\* for every threadblock that holds a predecessor of the op (an op of its
\* prev set that is no start op, or the op recorded last on a slot it reads)
\* the entry kept is the predecessor of that threadblock with the highest
\* step.
C21_DependsKeepHighestStep ==
    /\ failure = "none" =>
          \A o \in 1..Len(ops) :
              KeepsHighest(ops[o].depends, SlotPreds(o),
                           [x \in 1..Len(ops) |-> ops[x].tb],
                           [x \in 1..Len(ops) |-> ops[x].step])
    /\ dag_pc = "inferred" =>
          \A o \in InDag :
              KeepsHighest(dag_ops[o].depends,
                           {p \in dag_ops[o].prev : dag_ops[p].inst # "st"},
                           [x \in 1..Len(dag_ops) |-> dag_ops[x].tb],
                           [x \in 1..Len(dag_ops) |-> dag_ops[x].step])

C21_Witness ==
    /\ dag_pc = "inferred"
    /\ dag_ops[5].prev = {2, 3, 4}
    /\ dag_ops[2].tb = 0 /\ dag_ops[3].tb = 0 /\ dag_ops[4].tb = 1
    /\ dag_ops[5].depends = <<4, 3>>

-----------------------------------------------------------------------------
(* The two dependence filters of ir_to_xml, checked under SpecEmit; last    *)
(* holds the depends lists ir_to_xml found and the lists its filters left.  *)

\* the threadblock that holds the op after ir_to_xml
TbOf(op) ==
    CHOOSE t \in 1..Len(threadblocks) : op \in SeqRange(threadblocks[t].ops)

\* the ops of threadblock t that carry a dependency on dep after the filters
Carriers(t, dep) ==
    {c \in DOMAIN last.filtered :
        /\ TbOf(c) = t
        /\ dep \in SeqRange(last.filtered[c])}

\* C22: the filters of ir_to_xml remove every dependency on an op of the
\* op's own threadblock, and every dependency an op had on an op D of
\* another threadblock is afterwards carried by exactly one op of the op's
\* threadblock, the op itself or an op before it.
C22_FilteringKeepsOrderings ==
    last.kind = "ir_to_xml" =>
        \A o \in DOMAIN last.depends : \A k \in 1..Len(last.depends[o]) :
            LET dep == last.depends[o][k]
                t == TbOf(o)
            IN  IF TbOf(dep) = t
                THEN Carriers(t, dep) = {}
                ELSE /\ Cardinality(Carriers(t, dep)) = 1
                     /\ \A c \in Carriers(t, dep) :
                           PlaceOf(threadblocks, t, c) <= PlaceOf(threadblocks, t, o)

\* op 2 depended on op 1 of its threadblock and on op 3 as op 1 before it did
C22_Witness ==
    /\ last.kind = "ir_to_xml"
    /\ last.depends[1] = <<2, 3>>
    /\ last.depends[2] = <<1, 3, 4>>
    /\ last.filtered[1] = <<3>>
    /\ last.filtered[2] = <<4>>

-----------------------------------------------------------------------------
(* SpecBuild: up to MaxBuildCalls calls of add_start, add_send, add_recv    *)
(* and add_recv_reduce_copy on the RankDAG, for refs of one or two chunks   *)
(* of the input buffer of rank 0; the peer of the sends and recvs is        *)
(* rank 1.  A call that raises ends the script.                             *)

\* number of calls a script of SpecBuild makes
MaxBuildCalls == 4

BuildRunning == dag_pc = "build" /\ failure = "none" /\ dag_n < MaxBuildCalls

\* the slots (rank, buffer, i) for i in range(ref.index, ref.index + ref.size)
SlotsOf(ref) == {<<ref.rank, ref.buffer, i>> : i \in ref.index..(ref.index + ref.size - 1)}

BuildFrame ==
    /\ dag_n' = dag_n + 1
    /\ UNCHANGED <<tbs, tb_mapping, tb_count, slot_ops, buffers, ops, run_opt, ncalls>>
    /\ UNCHANGED <<dag_pc, held, chunkVars, emitVars, repVars, regionVars>>

\* rank_dag.add_start(0, Buffer.input, index, ref)
BuildStart(index) ==
    /\ BuildRunning
    /\ LET D == DagAddStart(Dag, 0, BufInput, index, ChunkRef(0, BufInput, index, 1))
       IN  /\ dag_ops' = D.ops
           /\ operations' = D.operations
    /\ failure' = failure
    /\ last' = [kind |-> "add_start"]
    /\ BuildFrame

\* rank_dag.add_send(0, send_ref, recv_ref, step, priority, tb, ch);
\* self.operations[slot] raises KeyError for a slot that is no key
BuildSend(index, size) ==
    /\ BuildRunning
    /\ LET send_ref == ChunkRef(0, BufInput, index, size)
           recv_ref == ChunkRef(1, BufInput, index, size)
       IN  IF \E slot \in SlotsOf(send_ref) : ~HasSlot(Dag, slot)
           THEN /\ failure' = "KeyError"
                /\ last' = [kind |-> "add_send", src |-> send_ref]
                /\ UNCHANGED <<dag_ops, operations>>
           ELSE \E prev_ops \in PrevChoices(Dag, 0, BufInput, index, size) :
                   LET D == DagAddSend(Dag, 0, send_ref, recv_ref, 0, 0, prev_ops)
                   IN  /\ dag_ops' = D.ops
                       /\ operations' = D.operations
                       /\ failure' = failure
                       /\ last' = [kind |-> "add_send", src |-> send_ref]
    /\ BuildFrame

\* rank_dag.add_recv(0, ...) for inst "r", add_recv_reduce_copy for inst "rrc"
BuildRecv(inst, index, size) ==
    /\ BuildRunning
    /\ LET send_ref == ChunkRef(1, BufInput, index, size)
           recv_ref == ChunkRef(0, BufInput, index, size)
           D == DagAddRecv(Dag, inst, 0, send_ref, recv_ref, 0, 0)
       IN  /\ dag_ops' = D.ops
           /\ operations' = D.operations
    /\ failure' = failure
    /\ last' = [kind |-> "add_recv"]
    /\ BuildFrame

BuildStarts == \E index \in 0..1 : BuildStart(index)

BuildSends == \E index \in 0..1, size \in 1..2 : index + size <= 2 /\ BuildSend(index, size)

BuildRecvs ==
    \E inst \in {"r", "rrc"}, index \in 0..1, size \in 1..2 :
        index + size <= 2 /\ BuildRecv(inst, index, size)

NextBuild == BuildStarts \/ BuildSends \/ BuildRecvs

SpecBuild == Init /\ [][NextBuild]_vars

\* the op writes the slot: a start, recv or recv_reduce_copy whose
\* destination range holds it
Writes(o, slot) ==
    /\ dag_ops[o].inst \in {"st", "r", "rrc"}
    /\ slot \in SlotsOf(dag_ops[o].dst)

\* the op reads or writes the slot on its own rank
Touches(o, slot) ==
    \/ Writes(o, slot)
    \/ dag_ops[o].inst = "s" /\ slot \in SlotsOf(dag_ops[o].src)

\* the op and the ops reachable from it along next
Descendants(o) == InDagFrom({}, {o})

BuildSlots == {operations[k].slot : k \in 1..Len(operations)}

\* a in b.next exactly if b in a.prev, and no op is its own descendant
EdgesAgree ==
    /\ \A a, b \in 1..Len(dag_ops) : a \in dag_ops[b].next <=> b \in dag_ops[a].prev
    /\ \A o \in 1..Len(dag_ops) : o \notin InDagFrom({}, dag_ops[o].next)

\* the ops of a slot hang below its root, the writers in the order of the calls
SlotsAreChains ==
    \A o \in 1..Len(dag_ops) : \A slot \in {<<0, BufInput, i>> : i \in 0..1} :
        Touches(o, slot) =>
            /\ slot \in BuildSlots
            /\ o \in Descendants(SlotOp(Dag, slot))
            /\ Writes(o, slot) =>
                  \A e \in 1..(o - 1) : Touches(e, slot) => o \in Descendants(e)

\* every start op was added for a slot no earlier op had touched
StartsComeFirst ==
    \A o \in 1..Len(dag_ops) :
        dag_ops[o].inst = "st" =>
            \A e \in 1..(o - 1) : \A slot \in SlotsOf(dag_ops[o].dst) : ~Touches(e, slot)

\* C23 as stated: after any sequence of add_start, add_send, add_recv and
\* add_recv_reduce_copy calls the prev/next graph is acyclic with a in b.next
\* exactly if b in a.prev, every op that touched a slot is reachable from the
\* root op of the slot, and every writer of a slot is a descendant of every
\* earlier op on the slot.
C23_AnySequence == EdgesAgree /\ SlotsAreChains

\* C23: after any sequence of add_start, add_send, add_recv and
\* add_recv_reduce_copy calls in which add_start is only called for a slot
\* no earlier op has touched, the prev/next graph is acyclic with a in b.next
\* exactly if b in a.prev, every op that touched a slot is reachable from the
\* root op of the slot, and every writer of a slot is a descendant of every
\* earlier op on the slot.
C23_SlotOpsFormChains == EdgesAgree /\ (StartsComeFirst => SlotsAreChains)

\* a recv of two chunks, a send of the first and a second write of it
C23_Witness ==
    /\ StartsComeFirst
    /\ Len(dag_ops) = 4
    /\ dag_ops[1].inst = "st"
    /\ dag_ops[2].inst = "r" /\ dag_ops[2].dst.size = 2
    /\ dag_ops[3].inst = "s" /\ dag_ops[3].src.index = 0
    /\ dag_ops[4].inst = "rrc" /\ dag_ops[4].dst.index = 0
    /\ 4 \in Descendants(3)

\* the op wrote the slot and no op added after it did
IsLastWriter(p, slot) ==
    /\ Writes(p, slot)
    /\ \A w \in 1..Len(dag_ops) : Writes(w, slot) => w <= p

\* whatever find_last_recv returns for a slot is the last writer of the slot
FindsLastWriter ==
    \A slot \in BuildSlots : \A p \in FindLastRecv(Dag, slot) : IsLastWriter(p, slot)

\* the send add_send returned hangs below the last writer of each source slot
SendFollowsLastWriters ==
    (last.kind = "add_send" /\ failure = "none") =>
        \A slot \in SlotsOf(last.src) :
            \E p \in dag_ops[Len(dag_ops)].prev : IsLastWriter(p, slot)

\* add_send raised exactly if a source slot had no producer
SendNeedsProducers ==
    last.kind = "add_send" =>
        (failure # "none" <=>
            \E slot \in SlotsOf(last.src) : \A w \in 1..Len(dag_ops) : ~Writes(w, slot))

\* C24: in a DAG whose start ops came first on their slots, find_last_recv
\* returns for every slot an op whose destination range contains the slot
\* and after which no op writes the slot, add_send links the send below the
\* last writer of each source slot, and add_send fails when a source slot
\* has no producer.
C24_FindLastRecvIsLastWriter ==
    StartsComeFirst => FindsLastWriter /\ SendFollowsLastWriters /\ SendNeedsProducers

-----------------------------------------------------------------------------
(* SpecWrites: writes_to_slot asked about one op of rank 0 and one slot of  *)
(* rank 0.  The op moves one or two chunks between the input and output     *)
(* buffers; operations holds the slot asked about.                          *)

InitWrites ==
    /\ InitProgram
    /\ NoChunks
    /\ NoEmit
    /\ NoReplica
    /\ NoRegion
    /\ dag_n = 0
    /\ dag_pc = "ask"
    /\ \E inst \in {"st", "s", "r", "rrc", "cpy", "re"}, size \in 1..2,
          sbuf \in BufNames, sidx \in 0..1, dbuf \in BufNames, didx \in 0..1 :
          dag_ops = << DagOp(inst, 0, ChunkRef(0, sbuf, sidx, size),
                             ChunkRef(0, dbuf, didx, size), 0, 0) >>
    /\ \E buffer \in BufNames, index \in 0..2 :
          operations = << [slot |-> <<0, buffer, index>>, op |-> 1] >>

\* writes_to_slot(op, slot)
WritesToSlotCall ==
    /\ dag_pc = "ask"
    /\ dag_pc' = "answered"
    /\ last' = [kind |-> "writes_to_slot",
                result |-> WritesToSlot(dag_ops[1], operations[1].slot)]
    /\ UNCHANGED <<tbs, tb_mapping, tb_count, slot_ops, buffers, ops, run_opt, failure,
                   ncalls>>
    /\ UNCHANGED <<dag_ops, operations, dag_n, held, chunkVars, emitVars, repVars,
                   regionVars>>

NextWrites == WritesToSlotCall

SpecWrites == InitWrites /\ [][NextWrites]_vars

\* the destination range of the op contains the slot
DstHolds(op, slot) ==
    /\ slot[2] = op.dst.buffer
    /\ op.dst.index <= slot[3]
    /\ slot[3] < op.dst.index + op.dst.size

\* C25: writes_to_slot(op, slot) is true exactly if the destination range
\* of the op contains the slot (same buffer, dst.index <= index <
\* dst.index + size), and false for every send.
C25_WritesToSlotIsDstRange ==
    dag_pc = "answered" =>
        last.result = (dag_ops[1].inst # "s" /\ DstHolds(dag_ops[1], operations[1].slot))

-----------------------------------------------------------------------------
(* The fusion passes op by op, checked under SpecFuse on the DAGs            *)
(* convert_set_list leaves: the body of the loop of a pass is applied to     *)
(* every op of the DAG the pass starts with.                                 *)

\* the op has a single successor, a send of its threadblock with its count
FollowedBySend(D, op) ==
    /\ Len(D.ops[op].next) = 1
    /\ D.ops[D.ops[op].next[1]].inst = "s"
    /\ SameTb(D.ops[op], D.ops[D.ops[op].next[1]])
    /\ SameCount(D.ops[op], D.ops[D.ops[op].next[1]])

\* the send reads what the op wrote: same buffer and index
ReadsDstOf(D, send, op) ==
    /\ D.ops[send].src.buffer = D.ops[op].dst.buffer
    /\ D.ops[send].src.index = D.ops[op].dst.index

\* D2 is D with the send fused into op as inst and every other op as it was
FusedInto(D, D2, op, send, inst) ==
    /\ D2.ops[op].inst = inst
    /\ D2.ops[op].dst = D.ops[send].dst
    /\ D2.ops[op].match = D.ops[op].match \o D.ops[send].match
    /\ send \notin Listed(D2)
    /\ Listed(D2) = Listed(D) \ {send}

\* the DAG the recv-copy-send pass starts with
BeforeRcs == OptimizeRrcsRrs(Dag)

\* C26: the recv-copy-send pass turns a recv into recv_copy_send exactly
\* when its single successor is a send of the same threadblock with the
\* same count whose source buffer and index are the destination buffer and
\* index of the recv; the fused op takes the destination and the match
\* entries of the send and the send leaves the DAG; any other recv is left
\* unchanged.
C26_RcsFusesRecvAndSend ==
    dag_pc = "lists" =>
        \A op \in Listed(BeforeRcs) :
            BeforeRcs.ops[op].inst = "r" =>
                LET D == BeforeRcs
                    D2 == RcsStep(D, op)
                IN  IF FollowedBySend(D, op) /\ ReadsDstOf(D, D.ops[op].next[1], op)
                    THEN FusedInto(D, D2, op, D.ops[op].next[1], "rcs")
                    ELSE D2 = D

\* the single successor of the send is a recv
FeedsRecv(D, send) ==
    /\ Len(D.ops[send].next) = 1
    /\ D.ops[D.ops[send].next[1]].inst = "r"

\* the body of the loop, applied to a recv_reduce_copy of the DAG
RrcStepFuses(D, op) ==
    LET D2 == RrcsRrsStep(D, op) IN
    IF FollowedBySend(D, op)
    THEN FusedInto(D, D2, op, D.ops[op].next[1],
                   IF FeedsRecv(D, D.ops[op].next[1]) THEN "rrs" ELSE "rrcs")
    ELSE D2 = D

\* after the whole pass the op is as it was or holds what one send gave it
FusedOnce(D, P, op) ==
    \/ P.ops[op] = D.ops[op]
    \/ /\ P.ops[op].inst = "rrc"
       /\ P.ops[op].dst = D.ops[op].dst
       /\ P.ops[op].match = D.ops[op].match
    \/ \E send \in Listed(D) \ Listed(P) :
          /\ D.ops[send].inst = "s"
          /\ P.ops[op].inst \in {"rrs", "rrcs"}
          /\ P.ops[op].dst = D.ops[send].dst
          /\ P.ops[op].match = D.ops[op].match \o D.ops[send].match

\* C27: in the recv-reduce pass a recv_reduce_copy whose single successor
\* is a send of the same threadblock with the same count becomes
\* recv_reduce_send when the single successor of that send is a recv and
\* recv_reduce_copy_send otherwise; the fused op takes the destination and
\* the match entries of the send, the send leaves the DAG, and no op is
\* fused twice in one pass.
C27_RrcFusesOnce ==
    dag_pc = "lists" =>
        \A op \in Listed(Dag) :
            dag_ops[op].inst = "rrc" =>
                /\ RrcStepFuses(Dag, op)
                /\ FusedOnce(Dag, OptimizeRrcsRrs(Dag), op)

\* a recv_reduce_copy was fused with the send that feeds a later recv
C27_Witness ==
    /\ dag_pc = "done"
    /\ \E op \in Listed(Dag) :
          /\ dag_ops[op].inst = "rrs"
          /\ Len(dag_ops[op].match) = 2
          /\ dag_ops[op].dst.rank = 2

-----------------------------------------------------------------------------
(* SpecSplice: up to MaxSpliceCalls calls of add_recv and add_send on the   *)
(* RankDAG for five slots of the input buffer of rank 0, every op in        *)
(* threadblock 0, then convert_set_list and optimize.  The recv-copy-send   *)
(* pass is followed op by op: last holds the slot the pass is at and its    *)
(* frontier, and one step is one turn of the while loop.                    *)

\* number of add_recv and add_send calls of a script of SpecSplice
MaxSpliceCalls == 6

SpliceRunning == dag_pc = "build" /\ failure = "none" /\ dag_n < MaxSpliceCalls

SpliceFrame ==
    /\ UNCHANGED <<tbs, tb_mapping, tb_count, slot_ops, buffers, ops, run_opt, ncalls>>
    /\ UNCHANGED <<held, chunkVars, emitVars, repVars, regionVars>>

\* rank_dag.add_recv(0, send_ref, recv_ref, step, priority, 0, 0)
SpliceRecv(index, size) ==
    /\ SpliceRunning
    /\ LET D == DagAddRecv(Dag, "r", 0, ChunkRef(1, BufInput, index, size),
                           ChunkRef(0, BufInput, index, size), 0, 0)
       IN  /\ dag_ops' = D.ops
           /\ operations' = D.operations
    /\ dag_n' = dag_n + 1
    /\ last' = [kind |-> "add_recv"]
    /\ UNCHANGED <<dag_pc, failure>>
    /\ SpliceFrame

\* rank_dag.add_send(0, send_ref, recv_ref, step, priority, 0, 0) of two chunks
SpliceSend(index, dst_index) ==
    /\ SpliceRunning
    /\ LET send_ref == ChunkRef(0, BufInput, index, 2)
           recv_ref == ChunkRef(1, BufInput, dst_index, 2)
       IN  IF \E slot \in SlotsOf(send_ref) : ~HasSlot(Dag, slot)
           THEN /\ failure' = "KeyError"
                /\ UNCHANGED <<dag_ops, operations>>
           ELSE \E prev_ops \in PrevChoices(Dag, 0, BufInput, index, 2) :
                   LET D == DagAddSend(Dag, 0, send_ref, recv_ref, 0, 0, prev_ops)
                   IN  /\ dag_ops' = D.ops
                       /\ operations' = D.operations
                       /\ failure' = failure
    /\ dag_n' = dag_n + 1
    /\ last' = [kind |-> "add_send"]
    /\ UNCHANGED dag_pc
    /\ SpliceFrame

\* rank_dag.convert_set_list()
SpliceConvert ==
    /\ dag_pc = "build"
    /\ failure = "none"
    /\ dag_n > 0
    /\ \E lists \in Listings(Dag, Len(dag_ops)) :
           dag_ops' = [o \in DOMAIN dag_ops |->
                          IF o \in Visited(Dag)
                          THEN [dag_ops[o] EXCEPT !.next = lists[o]]
                          ELSE dag_ops[o]]
    /\ dag_pc' = "lists"
    /\ last' = [kind |-> "convert_set_list"]
    /\ UNCHANGED <<operations, dag_n, failure>>
    /\ SpliceFrame

\* rank_dag.optimize(), up to the first slot of _optimize_rcs:
\* self._optimize_rrcs_rrs(), then frontier = [ops]
RcsEnter ==
    /\ dag_pc = "lists"
    /\ LET D == OptimizeRrcsRrs(Dag)
       IN  /\ dag_ops' = D.ops
           /\ operations' = D.operations
           /\ last' = [kind |-> "rcs", slot |-> 1, frontier |-> <<D.operations[1].op>>]
    /\ dag_pc' = "rcs"
    /\ UNCHANGED <<dag_n, failure>>
    /\ SpliceFrame

\* one turn of while len(frontier) > 0, or the step to the next slot
RcsVisit ==
    /\ dag_pc = "rcs"
    /\ IF last.frontier # <<>>
       THEN LET op == Head(last.frontier)
                D == RcsStep(Dag, op)
            IN  /\ dag_ops' = D.ops
                /\ operations' = D.operations
                /\ last' = [last EXCEPT !.frontier = Tail(@) \o D.ops[op].next]
                /\ UNCHANGED dag_pc
       ELSE /\ UNCHANGED <<dag_ops, operations>>
            /\ IF last.slot < Len(operations)
               THEN /\ last' = [last EXCEPT !.slot = @ + 1,
                                            !.frontier = <<operations[last.slot + 1].op>>]
                    /\ UNCHANGED dag_pc
               ELSE /\ last' = [kind |-> "optimize"]
                    /\ dag_pc' = "done"
    /\ UNCHANGED <<dag_n, failure>>
    /\ SpliceFrame

\* the refs received: chunks 0-1, chunk 2, chunks 3-4
SpliceRecvs ==
    \E index \in {0, 2, 3} : SpliceRecv(index, IF index = 2 THEN 1 ELSE 2)

\* the refs sent: chunks 1-2 or chunks 2-3, to index 0 or 3 of the peer
SpliceSends == \E index \in 1..2, dst_index \in {0, 3} : SpliceSend(index, dst_index)

NextSplice == SpliceRecvs \/ SpliceSends \/ SpliceConvert \/ RcsEnter \/ RcsVisit

SpecSplice == Init /\ [][NextSplice]_vars

\* how often the list names the op
Count(seq, x) == Cardinality({k \in 1..Len(seq) : seq[k] = x})

\* D2 is D with op spliced out
Spliced(D, D2, op) ==
    LET preds == D.ops[op].prev
        succs == SeqRange(D.ops[op].next)
        others == DOMAIN D.ops \ {op}
    IN  /\ \A o \in others : op \notin D2.ops[o].prev /\ op \notin SeqRange(D2.ops[o].next)
        /\ \A p \in preds : \A n \in succs :
              /\ Count(D2.ops[p].next, n) = 1
              /\ p \in D2.ops[n].prev
        /\ \A a, b \in others :
              ~(a \in preds /\ b \in succs) =>
                  /\ Count(D2.ops[a].next, b) = Count(D.ops[a].next, b)
                  /\ a \in D2.ops[b].prev <=> a \in D.ops[b].prev

\* a turn of the loop that fused a recv called remove_op on its successor
RemoveOpSplices ==
    (/\ dag_pc = "rcs" /\ last.frontier # <<>>
     /\ dag_ops[Head(last.frontier)].inst = "r"
     /\ dag_ops'[Head(last.frontier)].inst = "rcs") =>
        Spliced(Dag, [ops |-> dag_ops', operations |-> operations'],
                dag_ops[Head(last.frontier)].next[1])

\* C28: remove_op(op), as the recv-copy-send pass calls it, splices op out:
\* afterwards no other op has op in its prev or next, every former
\* predecessor has every former successor in its next exactly once, every
\* former successor has every former predecessor in its prev, and the edges
\* between the other ops are as they were.
C28_RemoveOpSplices == [][RemoveOpSplices]_vars

-----------------------------------------------------------------------------
(* The order of the ops of a threadblock after lower_tbs, and the order of  *)
(* matched sends and recvs across a link; checked under Spec.               *)

\* for _, op in sorted(tb.ops.items()): tb_ops.append(op)
RECURSIVE SortedOps(_, _)
SortedOps(tb_ops, steps) ==
    IF steps = {} THEN <<>>
    ELSE LET first == CHOOSE s \in steps : \A t \in steps : s <= t
         IN  <<tb_ops[first]>> \o SortedOps(tb_ops, steps \ {first})

\* tb.ops of threadblock tbid of the rank after lower_tbs
LowerTbs(rank, tbid) == SortedOps(tbs[rank][tbid].ops, DOMAIN tbs[rank][tbid].ops)

\* the place of the op in the list
PlaceIn(seq, op) == CHOOSE k \in 1..Len(seq) : seq[k] = op

\* the recv-family op Ref.send and Ref.reduce construct after the send op
MatchedRecv(o) == o + 1

\* the sends of threadblock t of rank a whose matched op is in threadblock u of rank b
LinkSends(a, t, b, u) ==
    {o \in SeqRange(LowerTbs(a, t)) :
        /\ ops[o].inst = "s"
        /\ MatchedRecv(o) \in SeqRange(LowerTbs(b, u))}

\* C29: for every sending threadblock of a rank and every receiving
\* threadblock of another rank, the sends of the former whose matched
\* recv-family ops are in the latter come in the former in the order their
\* matched ops come in the latter, whatever steps and threadblock ids the
\* calls were given.
C29_SendAndRecvOrdersAgree ==
    failure = "none" =>
        \A a \in Ranks, b \in Ranks : \A t \in DOMAIN tbs[a], u \in DOMAIN tbs[b] :
            \A s1, s2 \in LinkSends(a, t, b, u) :
                PlaceIn(LowerTbs(a, t), s1) < PlaceIn(LowerTbs(a, t), s2)
                    <=> PlaceIn(LowerTbs(b, u), MatchedRecv(s1))
                            < PlaceIn(LowerTbs(b, u), MatchedRecv(s2))

\* two sends over one link, the second call with the lower step
C29_Witness ==
    /\ failure = "none"
    /\ Len(ops) = 4
    /\ ops[1].inst = "s" /\ ops[3].inst = "s"
    /\ ops[1].step > ops[3].step
    /\ \E a \in Ranks, b \in Ranks : \E t \in DOMAIN tbs[a], u \in DOMAIN tbs[b] :
          /\ LinkSends(a, t, b, u) = {1, 3}
          /\ LowerTbs(a, t) = <<3, 1>>
          /\ LowerTbs(b, u) = <<4, 2>>

-----------------------------------------------------------------------------
(* Process._add_reduce, and SpecLocal: scripts of two ranks that copy and   *)
(* reduce single chunks of the input buffer within a rank and send them to  *)
(* the other rank, every threadblock assigned automatically (tbid -1) and   *)
(* every call with a step of its own.  _local_reduce raises before it       *)
(* reaches _add_reduce, so the scripts also call _add_reduce themselves,    *)
(* with the op _local_reduce constructs.                                    *)

\* buffers[dst][dst.index+i] = other_chunk.reduce(reduce_chunk)
RECURSIVE LocalReduceLoop(_, _, _, _)
LocalReduceLoop(S, rank, op, i) ==
    LET src == S.ops[op].src
        dst == S.ops[op].dst
        reduce_chunk == ReadSlot(S, rank, dst.buffer, dst.index + i)
        other_chunk == ReadSlot(S, src.rank, src.buffer, src.index + i)
        value == ChunkReduce(other_chunk, reduce_chunk)
    IN  IF i >= src.size THEN S
        ELSE IF dst.buffer \notin DOMAIN S.buffers[rank] THEN Fail(S, "no_buffer")
        ELSE IF value = Raised THEN Fail(S, "reduce_none")
        ELSE LocalReduceLoop(
                 UpdateSlotOps(WriteSlot(S, rank, dst.buffer, dst.index + i, value),
                               rank, dst.buffer, dst.index + i, op),
                 rank, op, i + 1)

\* _add_reduce
AddReduce(S, rank, tbid0, step, ch, op) ==
    LET receivefrom == S.ops[op].src.rank
        g == PickTbid(S, rank, tbid0, "cpy", receivefrom, ch)
        S1 == FillDependence(g.S, rank, op, g.tbid)
        S2 == LocalReduceLoop(S1, rank, op, 0)
    IN  IF S2.failure # "none" THEN S2
        ELSE RecvTbs(S2, rank, g.tbid, step, ch, receivefrom, op)

\* number of calls a script of SpecLocal makes
MaxLocalCalls == 3

LocalRunning == failure = "none" /\ ncalls < MaxLocalCalls

\* ranks[rank].input(sindex).send(dst, Buffer.input, index, step=ncalls)
LocalSend(rank, sindex, dst, index) ==
    /\ LocalRunning
    /\ LET ref == GetRef(rank, BufInput, sindex, 1)
           S == RefSend(Cur, ref, dst, BufInput, index, ncalls, -1, -1, 0)
       IN  Issue("send", S, ref, dst, BufInput, index, ncalls, -1, -1, 0)

\* ranks[rank].input(sindex).reduce(rank, Buffer.input, index, step=ncalls)
LocalReduce(rank, sindex, index) ==
    /\ LocalRunning
    /\ LET ref == GetRef(rank, BufInput, sindex, 1)
           S == RefReduce(Cur, ref, rank, BufInput, index, ncalls, -1, -1, 0)
       IN  Issue("reduce", S, ref, rank, BufInput, index, ncalls, -1, -1, 0)

\* op = Op(Instruction.reduce, ref, dst_chunkref, {}, step);
\* ranks[rank]._add_reduce(-1, step, 0, op)
LocalAddReduce(rank, sindex, index) ==
    /\ LocalRunning
    /\ LET ref == GetRef(rank, BufInput, sindex, 1)
           S1 == NewOp(Cur, Op("re", ref, Ref(BufInput, index, 1, rank, {}), ncalls))
           S == AddReduce(S1, rank, -1, ncalls, 0, Len(S1.ops))
       IN  Issue("_add_reduce", S, ref, rank, BufInput, index, ncalls, -1, -1, 0)

LocalSends ==
    \E rank \in BufRanks, sindex \in 0..1, dst \in BufRanks, index \in 0..1 :
        LocalSend(rank, sindex, dst, index)

LocalReduces ==
    \E rank \in BufRanks, sindex \in 0..1, index \in 0..1 : LocalReduce(rank, sindex, index)

LocalAddReduces ==
    \E rank \in BufRanks, sindex \in 0..1, index \in 0..1 :
        LocalAddReduce(rank, sindex, index)

NextLocal == LocalSends \/ LocalReduces \/ LocalAddReduces

SpecLocal == Init /\ [][NextLocal]_vars

\* the threadblock that holds a copy or a reduce has no peers, is the
\* threadblock the rank keeps for copies on the channel, and holds no send
\* and no recv-family op
LocalOpsKeepApart ==
    \A r \in Ranks : \A t \in DOMAIN tbs[r] : \A s \in DOMAIN tbs[r][t].ops :
        ops[tbs[r][t].ops[s]].inst \in {"cpy", "re"} =>
            /\ tbs[r][t].send = -1
            /\ tbs[r][t].recv = -1
            /\ <<"cpy", -1, tbs[r][t].channel>> \in DOMAIN tb_mapping[r]
            /\ tb_mapping[r][<<"cpy", -1, tbs[r][t].channel>>] = t
            /\ \A s2 \in DOMAIN tbs[r][t].ops :
                  ops[tbs[r][t].ops[s2]].inst \notin {"s", "r", "rrc"}

\* a local reduce of a slot that holds a chunk onto a slot that holds a
\* chunk puts a reduce op into a threadblock
LocalReduceIsPlaced ==
    (/\ last'.kind = "reduce"
     /\ last'.dst = last'.ref.rank
     /\ ReadSlot(Cur, last'.ref.rank, last'.ref.buffer, last'.ref.index) # None
     /\ ReadSlot(Cur, last'.dst, last'.buffer, last'.index) # None) =>
        /\ failure' = "none"
        /\ Len(ops') = Len(ops) + 1
        /\ ops'[Len(ops')].inst = "re"
        /\ \E t \in DOMAIN tbs'[last'.dst] :
              tbs'[last'.dst][t].ops[last'.step] = Len(ops')

\* C30: with every threadblock assigned automatically, every local copy op
\* and every local reduce op is in a threadblock whose send and recv peers
\* are both -1, the one the rank keeps for its channel, which holds no send
\* and no recv-family op; and a local reduce is placed in a threadblock.
C30_LocalOpsKeepApart == []LocalOpsKeepApart /\ [][LocalReduceIsPlaced]_vars

-----------------------------------------------------------------------------
(* SpecTb: scripts of two ranks that send and reduce chunk 0 of the input   *)
(* buffer, with threadblock ids left to the Process (-1) or supplied, on    *)
(* either of two channels, every call with a step of its own.               *)

\* number of calls a script of SpecTb makes
MaxTbCalls == 3

TbRunning == failure = "none" /\ ncalls < MaxTbCalls

TbIds == {-1, 0, 1}
TbChannels == {0, 1}

\* ranks[rank].input(0).send(dst, Buffer.input, 0, ncalls, sendtb, recvtb, ch)
TbSend(rank, dst, sendtb, recvtb, ch) ==
    /\ TbRunning
    /\ LET ref == GetRef(rank, BufInput, 0, 1)
           S == RefSend(Cur, ref, dst, BufInput, 0, ncalls, sendtb, recvtb, ch)
       IN  Issue("send", S, ref, dst, BufInput, 0, ncalls, sendtb, recvtb, ch)

\* ranks[rank].input(0).reduce(dst, Buffer.input, 0, ncalls, sendtb, recvtb, ch),
\* onto the other rank
TbReduce(rank, dst, sendtb, recvtb, ch) ==
    /\ TbRunning
    /\ dst # rank
    /\ LET ref == GetRef(rank, BufInput, 0, 1)
           S == RefReduce(Cur, ref, dst, BufInput, 0, ncalls, sendtb, recvtb, ch)
       IN  Issue("reduce", S, ref, dst, BufInput, 0, ncalls, sendtb, recvtb, ch)

TbSends ==
    \E rank \in BufRanks, dst \in BufRanks, sendtb \in TbIds, recvtb \in TbIds,
       ch \in TbChannels : TbSend(rank, dst, sendtb, recvtb, ch)

TbReduces ==
    \E rank \in BufRanks, dst \in BufRanks, sendtb \in TbIds, recvtb \in TbIds,
       ch \in TbChannels : TbReduce(rank, dst, sendtb, recvtb, ch)

NextTb == TbSends \/ TbReduces

SpecTb == Init /\ [][NextTb]_vars

\* the ops the call of this step made
NewOps == (Len(ops) + 1)..Len(ops')

\* every op an accepted call put into a threadblock is in a threadblock
\* whose channel is the channel of the call
CallKeepsChannel ==
    failure' = "none" =>
        \A o \in NewOps : \A r \in Ranks : \A t \in DOMAIN tbs'[r] :
            (\E s \in DOMAIN tbs'[r][t].ops : tbs'[r][t].ops[s] = o) =>
                tbs'[r][t].channel = last'.ch

\* the channel of a threadblock stays what it was recorded as
ChannelIsKept ==
    \A r \in Ranks : \A t \in DOMAIN tbs[r] :
        t \in DOMAIN tbs'[r] /\ tbs'[r][t].channel = tbs[r][t].channel

\* C31: every op a threadblock holds was issued with the channel recorded as
\* the threadblock's channel: a threadblock keeps its channel, and a call
\* that is accepted puts its ops into threadblocks of the call's channel,
\* with automatic and with supplied threadblock ids.
C31_OpsShareTbChannel == [][ChannelIsKept /\ CallKeepsChannel]_vars

\* the ids _get_tbid gave out on a rank
AutoIds(r) == {tb_mapping[r][k] : k \in DOMAIN tb_mapping[r]}

\* an id _get_tbid gives out in this step names no threadblock the rank has
AutoIsFresh ==
    \A r \in Ranks : \A id \in tb_count[r]..(tb_count'[r] - 1) : id \notin DOMAIN tbs[r]

\* an id the call of this step supplies is none that _get_tbid gave out
ManualAvoidsAuto ==
    /\ last'.sendtb # -1 => last'.sendtb \notin AutoIds(last'.ref.rank)
    /\ (last'.recvtb # -1 /\ last'.dst # last'.ref.rank) =>
           last'.recvtb \notin AutoIds(last'.dst)

\* distinct keys of a rank have distinct ids
KeysKeepApart ==
    \A r \in Ranks : \A k1, k2 \in DOMAIN tb_mapping[r] :
        k1 # k2 => tb_mapping[r][k1] # tb_mapping[r][k2]

\* a key keeps the id it was given
KeysKeepIds ==
    \A r \in Ranks : \A k \in DOMAIN tb_mapping[r] :
        k \in DOMAIN tb_mapping'[r] /\ tb_mapping'[r][k] = tb_mapping[r][k]

\* C32: on a rank that mixes supplied and automatic threadblock ids, an id
\* chosen automatically is none the script has supplied before and none it
\* supplies later; automatic assignment gives distinct (direction, peer,
\* channel) keys distinct ids and the same key always the same id.
C32_AutoIdsAvoidManualIds ==
    []KeysKeepApart /\ [][KeysKeepIds /\ AutoIsFresh /\ ManualAvoidsAuto]_vars

-----------------------------------------------------------------------------
(* SpecFill: scripts that take a Ref, group it with other Refs, then write  *)
(* slots with sends and local copies of single input chunks and send the    *)
(* Ref they hold.                                                           *)

\* held = held.group(other) or held = other.group(held), before any transfer
FillGroup(rank, buffer, index, size, swap) ==
    /\ ops = <<>>
    /\ GroupHeld(rank, buffer, index, size, swap)

\* ranks[rank].input(sindex).send(dst, Buffer.input, index, step=ncalls),
\* once the held Ref has a hole
FillSend(rank, sindex, dst, index) ==
    /\ RefRunning
    /\ held # NoRef
    /\ held.missing # {}
    /\ LET ref == GetRef(rank, BufInput, sindex, 1)
           S == RefSend(Cur, ref, dst, BufInput, index, ncalls, -1, -1, 0)
       IN  Issue("send", S, ref, dst, BufInput, index, ncalls, -1, -1, 0)

\* held.send(dst, held.buffer, held.index, step=ncalls)
FillSendHeld(dst) ==
    /\ RefRunning
    /\ held # NoRef
    /\ LET S == RefSend(Cur, held, dst, held.buffer, held.index, ncalls, -1, -1, 0)
       IN  Issue("send", S, held, dst, held.buffer, held.index, ncalls, -1, -1, 0)

FillGroups ==
    \E rank \in BufRanks, buffer \in BufNames, index \in 0..(Instances - 1),
       size \in Sizes, swap \in BOOLEAN : FillGroup(rank, buffer, index, size, swap)

FillSends ==
    \E rank \in BufRanks, sindex \in 0..(Instances - 1), dst \in BufRanks,
       index \in 0..(Instances - 1) : FillSend(rank, sindex, dst, index)

FillSendsHeld == \E dst \in BufRanks : FillSendHeld(dst)

NextFill == RefTake \/ FillGroups \/ FillSends \/ FillSendsHeld

SpecFill == Init /\ [][NextFill]_vars

\* a recv or a copy some threadblock holds wrote the slot
Written(rank, buffer, index) ==
    \E o \in HeldOps :
        /\ ops[o].inst \in {"r", "cpy"}
        /\ ops[o].dst.rank = rank
        /\ ops[o].dst.buffer = buffer
        /\ index \in ops[o].dst.index..(RefEnd(ops[o].dst) - 1)

\* the holes of the held Ref were all written since it was grouped
HolesFilled ==
    /\ held # NoRef
    /\ held.missing # {}
    /\ \A i \in held.missing : Written(held.rank, held.buffer, i)

FilledRefIsSent ==
    (HolesFilled /\ last'.kind = "send" /\ last'.ref = held) => failure' = "none"

\* C33: once every index of the missing set of a grouped Ref was written on
\* the Ref's rank and buffer by later sends or copies, send on the grouped
\* Ref succeeds.
C33_FilledRefIsSendable == [][FilledRefIsSent]_vars

-----------------------------------------------------------------------------
(* Process.lower_buffers and Process.lower_chunk, and SpecLower: scripts    *)
(* that create scratch buffers, write single input chunks into them at the  *)
(* next free index (-1) or at an index of their choosing, and lower the     *)
(* program.                                                                 *)

\* the scratch buffers a script creates on a rank, in this order
LowerNames == <<"scr", "scr2">>

\* lower_buffers, over self.buffers.items() in insertion order; buf.size() is
\* len(self.chunks)
RECURSIVE ProcessLowerBuffers(_, _, _, _)
ProcessLowerBuffers(S, rank, k, offset) ==
    IF k > Len(LowerNames) THEN S
    ELSE LET key == LowerNames[k] IN
         IF key \in DOMAIN S.buffers[rank]
         THEN ProcessLowerBuffers([S EXCEPT !.buffers[rank][key].offset = offset],
                                  rank, k + 1,
                                  offset + Cardinality(DOMAIN S.buffers[rank][key].chunks))
         ELSE ProcessLowerBuffers(S, rank, k + 1, offset)

\* BufferSlice.get_global_index
GetGlobalIndex(buf, index) == IF buf.offset > -1 THEN buf.offset + index ELSE -1

\* lower_chunk
ProcessLowerChunk(S, chunk) ==
    IF IsScratch(chunk.buffer)
    THEN [buffer |-> S.buffers[chunk.rank][chunk.buffer].buf,
          index |-> GetGlobalIndex(S.buffers[chunk.rank][chunk.buffer], chunk.index),
          size |-> chunk.size]
    ELSE chunk

\* number of calls a script of SpecLower makes
MaxLowerCalls == 5

LowerRunning == failure = "none" /\ ncalls < MaxLowerCalls /\ last.kind # "lower"

\* ranks[rank].create_scratch(LowerNames[k]), "scr2" after "scr"
LowerCreate(rank, k) ==
    /\ LowerRunning
    /\ k > 1 => LowerNames[k - 1] \in DOMAIN buffers[rank]
    /\ Store(CreateScratch(Cur, rank, LowerNames[k]))
    /\ last' = [kind |-> "create_scratch", rank |-> rank, name |-> LowerNames[k]]
    /\ UNCHANGED <<held, pureVars>>

\* ranks[rank].input(0).send(dst, name, index, step=ncalls)
LowerWrite(rank, dst, name, index) ==
    /\ LowerRunning
    /\ LET ref == GetRef(rank, BufInput, 0, 1)
           S == RefSend(Cur, ref, dst, name, index, ncalls, -1, -1, 0)
       IN  Issue("send", S, ref, dst, name, index, ncalls, -1, -1, 0)

\* SCCLProgram.lower: rank.lower_buffers() for every rank
LowerProgram ==
    /\ LowerRunning
    /\ LET S0 == ProcessLowerBuffers(Cur, 0, 1, 0)
           S1 == ProcessLowerBuffers(S0, 1, 1, 0)
           S2 == ProcessLowerBuffers(S1, 2, 1, 0)
       IN  Store(S2)
    /\ last' = [kind |-> "lower"]
    /\ UNCHANGED <<held, pureVars>>

LowerCreates == \E rank \in BufRanks, k \in 1..Len(LowerNames) : LowerCreate(rank, k)

LowerWrites ==
    \E rank \in BufRanks, dst \in BufRanks, k \in 1..Len(LowerNames),
       index \in -1..(Instances - 1) : LowerWrite(rank, dst, LowerNames[k], index)

NextLower == LowerCreates \/ LowerWrites \/ LowerProgram

SpecLower == Init /\ [][NextLower]_vars

\* the scratch slots of a rank that were written
WrittenScratch(r) ==
    {<<name, i>> \in {LowerNames[k] : k \in 1..Len(LowerNames)} \X (0..(2 * Instances)) :
        name \in DOMAIN buffers[r] /\ i \in DOMAIN buffers[r][name].chunks}

\* the index of the global scratch region lower_chunk gives a slot
LoweredIndex(r, slot) == ProcessLowerChunk(Cur, Ref(slot[1], slot[2], 1, r, {})).index

\* C34: after lower_buffers and lower_chunk, two distinct written scratch
\* slots of a rank, at allocated or at chosen indices, never have the same
\* index of the global scratch region.
C34_ScratchSlotsKeepApart ==
    last.kind = "lower" =>
        \A r \in BufRanks : \A s1, s2 \in WrittenScratch(r) :
            s1 # s2 => LoweredIndex(r, s1) # LoweredIndex(r, s2)

-----------------------------------------------------------------------------
(* SpecIndex: get_new_index of replicate on the slots of an input, an       *)
(* output and a scratch buffer of rank 0, for every instance of 2 or 3      *)
(* instances under both policies.                                           *)

\* the input and output buffers have up to MaxBufferLen chunks, an instance
\* of the scratch buffer up to MaxBufferLen slots
MaxBufferLen == 3

IndexBuffers(len, instance_size) ==
    << [key |-> BufInput, buf |-> [kind |-> "list", len |-> len]],
       [key |-> BufOutput, buf |-> [kind |-> "list", len |-> len]],
       [key |-> Scr, buf |-> [kind |-> "slice", offset |-> -1,
                              instance_size |-> instance_size]] >>

InitIndex ==
    /\ InitProgram
    /\ NoChunks
    /\ NoEmit
    /\ NoRegion
    /\ dag_ops = <<>>
    /\ operations = <<>>
    /\ dag_n = 0
    /\ dag_pc = "assigned"
    /\ dag_tbs = <<>>
    /\ num_channels = <<>>
    /\ instanced_tbs = <<>>
    /\ instanced_ops = <<>>
    /\ rep_call = NoCall
    /\ \E len \in 1..MaxBufferLen, instance_size \in 1..MaxBufferLen :
          dag_buffers = [r \in {0, 1} |-> IndexBuffers(len, instance_size)]

\* the number of slots of one instance of a buffer of rank 0
BufferLen(buffer) ==
    IF IsScratch(buffer) THEN InstanceSize(DagBuffer(RankDag, 0, buffer))
    ELSE DagBuffer(RankDag, 0, buffer).len

\* get_new_index(0, buffer, index, 1, i) inside replicate(instances, interleaved)
GetNewIndexCall(instances, interleaved, buffer, index, i) ==
    /\ index < BufferLen(buffer)
    /\ i < instances
    /\ LET C == [kind |-> "replicate", instances |-> instances,
                 interleaved |-> interleaved]
       IN  /\ rep_call' = C
           /\ last' = [kind |-> "get_new_index", buffer |-> buffer, index |-> index,
                       i |-> i,
                       result |-> GetNewIndex(RankDag, C, 0, buffer, index, 1, i)]
    /\ UNCHANGED <<tbs, tb_mapping, tb_count, slot_ops, buffers, ops, run_opt, failure,
                   ncalls, held>>
    /\ UNCHANGED <<dag_ops, operations, dag_pc, dag_n, dag_tbs, num_channels,
                   dag_buffers, instanced_tbs, instanced_ops>>
    /\ UNCHANGED <<chunkVars, emitVars, regionVars>>

GetsNewIndex ==
    \E instances \in 2..MaxInstances, interleaved \in BOOLEAN,
       buffer \in {BufInput, BufOutput, Scr}, index \in 0..(MaxBufferLen - 1),
       i \in 0..(MaxInstances - 1) :
        GetNewIndexCall(instances, interleaved, buffer, index, i)

NextIndex == GetsNewIndex

SpecIndex == InitIndex /\ [][NextIndex]_vars

\* instance_size*i + x for scratch, x*N + i under interleaved, len*i + x
\* under batched
RewrittenIndex(buffer, x, i) ==
    IF IsScratch(buffer) THEN BufferLen(buffer) * i + x
    ELSE IF rep_call.interleaved THEN x * rep_call.instances + i
    ELSE BufferLen(buffer) * i + x

\* C35: with N > 1 instances, slot x of instance i of a scratch buffer gets
\* index instance_size*i + x, a single-count input or output slot gets
\* x*N + i under interleaved and buffer_len*i + x under batched; the index is
\* inside [0, N * buffer length) and no other pair (y, j) with y inside the
\* buffer and 0 <= j < N gets the same index.
C35_InstancesKeepApart ==
    last.kind = "get_new_index" =>
        /\ last.result = RewrittenIndex(last.buffer, last.index, last.i)
        /\ last.result \in 0..(rep_call.instances * BufferLen(last.buffer) - 1)
        /\ \A y \in 0..(BufferLen(last.buffer) - 1) : \A j \in 0..(rep_call.instances - 1) :
              <<y, j>> # <<last.index, last.i>> =>
                  GetNewIndex(RankDag, rep_call, 0, last.buffer, y, 1, j) # last.result

\* slot 1 of instance 2 of an input buffer of 2 chunks, three instances
\* interleaved, got index 5; and slot 1 of instance 1 of a scratch buffer
\* with instances of 3 slots can get index 4
C35_Witness ==
    /\ last.kind = "get_new_index"
    /\ rep_call.instances = 3
    /\ \/ /\ last.buffer = BufInput
          /\ rep_call.interleaved
          /\ BufferLen(BufInput) = 2
          /\ last.index = 1
          /\ last.i = 2
          /\ last.result = 5
       \/ /\ last.buffer = Scr
          /\ BufferLen(Scr) = 3
          /\ last.index = 1
          /\ last.i = 1
          /\ last.result = 4

====
